---------------------------- MODULE Spec2Model ----------------------------
(***************************************************************************)
(* A model of the wellness dashboard's data pipeline                       *)
(* (dreesIA/wellnesstest): utils/data_loader.py and                        *)
(* components/readiness.py.                                                *)
(*                                                                         *)
(* Conventions                                                             *)
(*  - A cell of a table is a record [kind, m, d, s]:                       *)
(*      kind "null"  None / NaN / NaT                                      *)
(*      kind "num"   the number m / 10^d (a Python float, taken as a real) *)
(*      kind "text"  the string whose characters are the sequence s        *)
(*      kind "ts"    a datetime: day number m, time of day d               *)
(*  - A column label is a record [base, sfx]: the string base followed by  *)
(*    one "_<n>" group per element of sfx, so that the label "X_1" is      *)
(*    [base |-> "X", sfx |-> <<1>>].  No base of the model ends in         *)
(*    "_<digits>", which makes record equality string equality.            *)
(*  - A table (DataFrame) is [err, cols, data, n]: column labels, one      *)
(*    sequence of n cells per column (column-major), and err = TRUE for a  *)
(*    call that raised instead of returning a table.                       *)
(***************************************************************************)
EXTENDS Integers, Sequences, FiniteSets, TLC

VARIABLES
    pc,        \* position of the caller: which calls it has made so far
    raw,       \* the table as fetched from the source (never written)
    df,        \* the caller's table object, handed to normalize_dataframe
    stdout,    \* what normalize_dataframe printed on its first call
    out,       \* the table returned by the first call (or the raise)
    out2,      \* the result of a second call on out / of add_readiness_column
    text,      \* the text handed to a value-coercion function
    res,       \* what the value-coercion function returned
    numpy,     \* the numpy release line of the installation: "1.x" or "2.x"
    arg,       \* the scalar arguments of the call: [metric, athlete]
    api,       \* the narrative-generation collaborator: how it behaves
    ret,       \* what an analyst method did: [raised, called, value]
    cache,     \* the entries of st.cache_data per function: [key, value, at]
    now,       \* the clock, in quarters of an hour
    calls,     \* the requests made to the collaborators so far, in order
    chat_history,  \* st.session_state.chat_history
    env        \* the spreadsheet source and the local snapshot: how they behave

vars == <<pc, raw, df, stdout, out, out2, text, res, numpy, arg, api, ret,
          cache, now, calls, chat_history, env>>

-----------------------------------------------------------------------------
(* Cells                                                                   *)

NULL == [kind |-> "null", m |-> 0, d |-> 0, s |-> <<>>]

Num(m, d) == [kind |-> "num", m |-> m, d |-> d, s |-> <<>>]

Whole(n) == Num(n, 0)

Text(s) == [kind |-> "text", m |-> 0, d |-> 0, s |-> s]

TS(day, tod) == [kind |-> "ts", m |-> day, d |-> tod, s |-> <<>>]

\* pd.isna on a scalar cell
isna(v) == v.kind = "null"

RECURSIVE Pow10(_)
Pow10(k) == IF k = 0 THEN 1 ELSE 10 * Pow10(k - 1)

\* equality, order and arithmetic of the numbers m / 10^d
Aligned(a, b) == a.m * Pow10(IF b.d > a.d THEN b.d - a.d ELSE 0)

NumEq(a, b) == Aligned(a, b) = Aligned(b, a)

NumLess(a, b) == Aligned(a, b) < Aligned(b, a)

NumLeq(a, b) == Aligned(a, b) <= Aligned(b, a)

NumAdd(a, b) ==
    IF a.d >= b.d THEN Num(a.m + b.m * Pow10(a.d - b.d), a.d)
                  ELSE Num(a.m * Pow10(b.d - a.d) + b.m, b.d)

NumScale(a, k) == Num(a.m * k, a.d)

\* a cell is the number n (an integer literal of the claims)
IsNumber(v, n) == v.kind = "num" /\ NumEq(v, Whole(n))

-----------------------------------------------------------------------------
(* Column labels                                                           *)

Lbl(b) == [base |-> b, sfx |-> <<>>]

\* f"{col}_{n}"
Suffixed(col, n) == [col EXCEPT !.sfx = Append(@, n)]

\* column_mapping, in dictionary order: <<key, key.lower().strip(), value>>
column_mapping ==
    << <<"Timestamp", "timestamp", "Timestamp">>,
       <<"timestamp", "timestamp", "Timestamp">>,
       <<"Date", "date", "Timestamp">>,
       <<"Submission Time", "submission time", "Timestamp">>,
       <<"Athlete", "athlete", "Athlete">>,
       <<"Name", "name", "Athlete">>,
       <<"Athlete Name", "athlete name", "Athlete">>,
       <<"Your Name", "your name", "Athlete">>,
       <<"Player Name", "player name", "Athlete">>,
       <<"SleepText", "sleeptext", "SleepText">>,
       <<"Sleep Text", "sleep text", "SleepText">>,
       <<"Sleep Duration", "sleep duration", "SleepText">>,
       <<"Hours of Sleep", "hours of sleep", "SleepText">>,
       <<"Sleep Hours", "sleep hours", "SleepText">>,
       <<"How did you sleep?", "how did you sleep?", "Sleep">>,
       <<"Sleep Quality", "sleep quality", "Sleep">>,
       <<"Rate your sleep quality (1-10)", "rate your sleep quality (1-10)", "Sleep">>,
       <<"Sleep (1-10)", "sleep (1-10)", "Sleep">>,
       <<"Sleep", "sleep", "Sleep">>,
       <<"How is your mood?", "how is your mood?", "Mood">>,
       <<"Mood", "mood", "Mood">>,
       <<"Rate your mood (1-10)", "rate your mood (1-10)", "Mood">>,
       <<"Current Mood (1-10)", "current mood (1-10)", "Mood">>,
       <<"What is your overall energy level?", "what is your overall energy level?", "Energy">>,
       <<"Energy Level", "energy level", "Energy">>,
       <<"Energy", "energy", "Energy">>,
       <<"Rate your energy (1-10)", "rate your energy (1-10)", "Energy">>,
       <<"Energy Level (1-10)", "energy level (1-10)", "Energy">>,
       <<"What is your overall stress level?", "what is your overall stress level?", "Stress">>,
       <<"Stress Level", "stress level", "Stress">>,
       <<"Stress", "stress", "Stress">>,
       <<"Rate your stress (1-10)", "rate your stress (1-10)", "Stress">>,
       <<"Stress Level (1-10)", "stress level (1-10)", "Stress">>,
       <<"What is your general soreness?", "what is your general soreness?", "Soreness">>,
       <<"Soreness", "soreness", "Soreness">>,
       <<"Muscle Soreness", "muscle soreness", "Soreness">>,
       <<"Rate your soreness (1-10)", "rate your soreness (1-10)", "Soreness">>,
       <<"Soreness Level (1-10)", "soreness level (1-10)", "Soreness">>,
       <<"What is your overall fatigue?", "what is your overall fatigue?", "Fatigue">>,
       <<"Fatigue", "fatigue", "Fatigue">>,
       <<"Fatigue Level", "fatigue level", "Fatigue">>,
       <<"Rate your fatigue (1-10)", "rate your fatigue (1-10)", "Fatigue">>,
       <<"Fatigue Level (1-10)", "fatigue level (1-10)", "Fatigue">> >>

MapIdx == 1..Len(column_mapping)

\* old_col.lower().strip() of a label.  A label with a "_<n>" group keeps it,
\* and no key of column_mapping ends in one: "" stands for "equal to no key".
\* The bases listed are those of the model that are not keys themselves.
lower_strip(col) ==
    IF col.sfx # <<>> THEN ""
    ELSE CASE col.base = " sleep" -> "sleep"
           [] col.base = "X" -> "x"
           [] col.base = "SleepMinutes" -> "sleepminutes"
           [] col.base = "Readiness" -> "readiness"
           [] \E i \in MapIdx : column_mapping[i][1] = col.base ->
                column_mapping[CHOOSE i \in MapIdx : column_mapping[i][1] = col.base][2]
           [] OTHER -> col.base

\* The lookup of lines 225-235: the exact match, then the first key (in
\* dictionary order) whose lower().strip() equals the label's.  "" is None.
FirstMatch(S) == CHOOSE i \in S : \A j \in S : i <= j

\* the element of a singleton: { F(x) : x \in {e} } evaluates e once
Once(S) == CHOOSE x \in S : TRUE

new_col_of(old_col) ==
    Once({IF exact # {} THEN column_mapping[FirstMatch(exact)][3]
          ELSE Once({IF loose # {} THEN column_mapping[FirstMatch(loose)][3] ELSE "" :
                     loose \in {{i \in MapIdx : column_mapping[i][2] = key} :
                                key \in {lower_strip(old_col)}}}) :
          exact \in {{i \in MapIdx : old_col.sfx = <<>> /\ column_mapping[i][1] = old_col.base}}})

-----------------------------------------------------------------------------
(* Tables                                                                  *)

Table(cols, data, n) == [err |-> FALSE, cols |-> cols, data |-> data, n |-> n]

\* a call that raised: no table is returned
Raised == [err |-> TRUE, cols |-> <<>>, data |-> <<>>, n |-> 0]

ColIdx(t) == 1..Len(t.cols)

HasCol(t, l) == \E j \in ColIdx(t) : t.cols[j] = l

\* positions of the columns labelled l (df[l] selects them all)
Select(t, l) == {j \in ColIdx(t) : t.cols[j] = l}

\* the first column labelled l
Col(t, l) == t.data[FirstMatch(Select(t, l))]

\* t[l] = column: overwrite in place when l is a column, append otherwise
SetCol(t, l, column) ==
    IF HasCol(t, l)
    THEN [t EXCEPT !.data = [j \in ColIdx(t) |->
                                IF t.cols[j] = l THEN column ELSE t.data[j]]]
    ELSE [t EXCEPT !.cols = Append(@, l), !.data = Append(@, column)]

Distinct(seq) == \A i, j \in 1..Len(seq) : seq[i] = seq[j] => i = j

-----------------------------------------------------------------------------
(* Strings as sequences of characters                                      *)

Digit == {"0", "1", "2", "3", "4", "5", "6", "7", "8", "9"}

DigitVal(c) ==
    CASE c = "0" -> 0 [] c = "1" -> 1 [] c = "2" -> 2 [] c = "3" -> 3
      [] c = "4" -> 4 [] c = "5" -> 5 [] c = "6" -> 6 [] c = "7" -> 7
      [] c = "8" -> 8 [] c = "9" -> 9

DigitChar(n) == CHOOSE c \in Digit : DigitVal(c) = n

RECURSIVE DigitsVal(_)
DigitsVal(s) ==
    IF s = <<>> THEN 0
    ELSE 10 * DigitsVal(SubSeq(s, 1, Len(s) - 1)) + DigitVal(s[Len(s)])

RECURSIVE NatChars(_)
NatChars(n) == IF n < 10 THEN <<DigitChar(n)>>
               ELSE Append(NatChars(n \div 10), DigitChar(n % 10))

AllDigits(s) == \A i \in 1..Len(s) : s[i] \in Digit

IsSpace(c) == c = " "

upper_case == <<"A", "B", "C", "D", "E", "F", "G", "H", "I", "J", "K", "L", "M",
                "N", "O", "P", "Q", "R", "S", "T", "U", "V", "W", "X", "Y", "Z">>

lower_case == <<"a", "b", "c", "d", "e", "f", "g", "h", "i", "j", "k", "l", "m",
                "n", "o", "p", "q", "r", "s", "t", "u", "v", "w", "x", "y", "z">>

\* str.lower()
lower(s) ==
    [i \in 1..Len(s) |->
        IF \E k \in 1..26 : upper_case[k] = s[i]
        THEN lower_case[CHOOSE k \in 1..26 : upper_case[k] = s[i]]
        ELSE s[i]]

\* str.strip()
strip(s) ==
    LET keep == {i \in 1..Len(s) : ~IsSpace(s[i])}
    IN  IF keep = {} THEN <<>>
        ELSE SubSeq(s, CHOOSE i \in keep : \A j \in keep : i <= j,
                       CHOOSE i \in keep : \A j \in keep : j <= i)

\* the positions at which sub occurs in s
Occurrences(sub, s) ==
    {i \in 1..(Len(s) - Len(sub) + 1) : SubSeq(s, i, i + Len(sub) - 1) = sub}

\* sub in s
Contains(sub, s) == Occurrences(sub, s) # {}

\* s.split(sub)[0]: what precedes the first occurrence of sub
BeforeFirst(sub, s) ==
    IF Contains(sub, s) THEN SubSeq(s, 1, FirstMatch(Occurrences(sub, s)) - 1) ELSE s

\* the digits [ "." digits ] numeral: whole-part digits w, fraction digits f
Numeral(w, f) == Num(DigitsVal(w \o f), Len(f))

\* Python's float(s) on the characters of the model: surrounding whitespace,
\* an optional sign, then digits [ "." [digits] ] or "." digits.  NULL stands
\* for the ValueError.  (Exponents, "inf", "nan" and "_" need characters the
\* model's texts do not contain.)
float(s) ==
    LET t == strip(s)
        neg == t # <<>> /\ t[1] = "-"
        u == IF t # <<>> /\ t[1] \in {"-", "+"} THEN Tail(t) ELSE t
        dot == Occurrences(<<".">>, u)
        w == IF dot = {} THEN u ELSE SubSeq(u, 1, FirstMatch(dot) - 1)
        f == IF dot = {} THEN <<>> ELSE SubSeq(u, FirstMatch(dot) + 1, Len(u))
        v == Numeral(w, f)
    IN  IF AllDigits(w) /\ AllDigits(f) /\ Len(w) + Len(f) > 0
        THEN IF neg THEN Num(0 - v.m, v.d) ELSE v
        ELSE NULL

\* str(value) of a cell
DateChars(day) == <<"2", "0", "2", "4", "-", "0", "1", "-", "0", DigitChar(day % 10)>>

str(v) ==
    CASE v.kind = "text" -> v.s
      [] v.kind = "num" ->
            IF v.d = 0 THEN NatChars(v.m)
            ELSE NatChars(v.m \div Pow10(v.d)) \o <<".">>
                 \o [i \in 1..v.d |-> DigitChar((v.m \div Pow10(v.d - i)) % 10)]
      [] v.kind = "ts" -> DateChars(v.m) \o <<" ", "0", "0", ":", "0", "0", ":", "0", "0">>
      [] OTHER -> <<"n", "a", "n">>

-----------------------------------------------------------------------------
(* Value coercion                                                          *)

\* the `'/' in value_str` branch without its effect (a mutation)
clean_numeric_value_no_slash(value) ==
    IF isna(value) THEN NULL
    ELSE IF value.kind = "num" THEN value
    ELSE LET value_str == strip(str(value))
             byOutOf == IF Contains(<<"o", "u", "t", " ", "o", "f">>, lower(value_str))
                        THEN float(BeforeFirst(<<"o", "u", "t", " ", "o", "f">>, lower(value_str)))
                        ELSE NULL
         IN  IF ~isna(byOutOf) THEN byOutOf ELSE float(value_str)

clean_numeric_value(value) ==
    IF isna(value) THEN NULL
    ELSE IF value.kind = "num" THEN value
    ELSE LET value_str == strip(str(value))
             bySlash == IF Contains(<<"/">>, value_str)
                        THEN float(BeforeFirst(<<"/">>, value_str))
                        ELSE NULL
             byOutOf == IF Contains(<<"o", "u", "t", " ", "o", "f">>, lower(value_str))
                        THEN float(BeforeFirst(<<"o", "u", "t", " ", "o", "f">>, lower(value_str)))
                        ELSE NULL
         IN  IF ~isna(bySlash) THEN bySlash
             ELSE IF ~isna(byOutOf) THEN byOutOf
             ELSE float(value_str)

\* the last position of the run of characters of class C starting at i
\* (i - 1 when s[i] is not of the class): a greedy \d* or \s*
RECURSIVE RunEnd(_, _, _)
RunEnd(s, i, C) ==
    IF i <= Len(s) /\ s[i] \in C THEN RunEnd(s, i + 1, C) ELSE i - 1

At(s, i) == IF i >= 1 /\ i <= Len(s) THEN s[i] ELSE ""

\* s[i..j] cut to the end of s
Slice(s, i, j) == SubSeq(s, i, IF j <= Len(s) THEN j ELSE Len(s))

\* (\d+\.?\d*) at position i: <<matched, last position, value>>
NumberAt(s, i) ==
    LET e1 == RunEnd(s, i, Digit)
        p  == IF At(s, e1 + 1) = "." THEN e1 + 1 ELSE e1
        e2 == RunEnd(s, p + 1, Digit)
    IN  [ok |-> e1 >= i, last |-> e2,
         val |-> Numeral(SubSeq(s, i, e1), SubSeq(s, p + 1, e2))]

\* (\d+\.?\d*)\s*h(?:ours?)?\s*(?:(\d+)\s*m(?:ins?|inutes?)?)? at position i
HoursMinutesAt(s, i) ==
    LET g1 == NumberAt(s, i)
        h  == RunEnd(s, g1.last + 1, {" "}) + 1
        a  == IF Slice(s, h + 1, h + 3) = <<"o", "u", "r">>
              THEN (IF At(s, h + 4) = "s" THEN h + 4 ELSE h + 3)
              ELSE h
        b  == RunEnd(s, a + 1, {" "}) + 1
        e  == RunEnd(s, b, Digit)
        hasMin == e >= b /\ At(s, RunEnd(s, e + 1, {" "}) + 1) = "m"
    IN  [ok |-> g1.ok /\ At(s, h) = "h",
         hours |-> g1.val,
         minutes |-> IF hasMin THEN DigitsVal(SubSeq(s, b, e)) ELSE 0]

\* (\d+):(\d+) at position i
ColonAt(s, i) ==
    LET e1 == RunEnd(s, i, Digit)
        e2 == RunEnd(s, e1 + 2, Digit)
    IN  [ok |-> e1 >= i /\ At(s, e1 + 1) = ":" /\ e2 >= e1 + 2,
         hours |-> DigitsVal(SubSeq(s, i, e1)),
         minutes |-> DigitsVal(SubSeq(s, e1 + 2, e2))]

\* the threshold of line 361 with >= in place of > (a mutation)
already_minutes_geq(hours) == NumLeq(Whole(20), hours)

\* line 361: hours > 20
already_minutes(hours) == NumLess(Whole(20), hours)

parse_sleep_duration(cell) ==
    IF isna(cell) THEN NULL
    ELSE LET s  == strip(lower(str(cell)))
             m1 == {i \in 1..Len(s) : HoursMinutesAt(s, i).ok}
             m2 == {i \in 1..Len(s) : ColonAt(s, i).ok}
             m3 == {i \in 1..Len(s) : NumberAt(s, i).ok}
         IN  IF m1 # {}
             THEN LET m == HoursMinutesAt(s, FirstMatch(m1))
                  IN  NumAdd(NumScale(m.hours, 60), Whole(m.minutes))
             ELSE IF m2 # {}
             THEN LET m == ColonAt(s, FirstMatch(m2))
                  IN  Whole(m.hours * 60 + m.minutes)
             ELSE IF m3 # {}
             THEN LET hours == NumberAt(s, FirstMatch(m3)).val
                  IN  IF already_minutes(hours) THEN hours ELSE NumScale(hours, 60)
             ELSE NULL

-----------------------------------------------------------------------------
(* Readiness                                                               *)

NumMul(a, b) == Num(a.m * b.m, a.d + b.d)

\* 10 - value
Inverted(v) == Num(10 * Pow10(v.d) - v.m, v.d)

\* round(a / b, 2) for a >= 0, b > 0 (half up; the inputs of the model give no tie)
DivRound2(a, b) ==
    LET num == a.m * Pow10(b.d) * 100
        den == b.m * Pow10(a.d)
    IN  Num((2 * num + den) \div (2 * den), 2)

\* weights of calculate_readiness, in dictionary order: <<metric, |weight|, weight < 0>>
weights ==
    << <<"Sleep", Num(25, 2), FALSE>>,
       <<"Mood", Num(15, 2), FALSE>>,
       <<"Energy", Num(20, 2), FALSE>>,
       <<"Stress", Num(15, 2), TRUE>>,
       <<"Soreness", Num(10, 2), TRUE>>,
       <<"Fatigue", Num(15, 2), TRUE>> >>

RECURSIVE SumAbsWeights(_)
SumAbsWeights(k) == IF k = 0 THEN Whole(0) ELSE NumAdd(SumAbsWeights(k - 1), weights[k][2])

\* readiness after the first k metrics of the loop of lines 385-391, for row r;
\* NULL is NaN, which every later addition keeps
RECURSIVE WeightedSum(_, _, _)
WeightedSum(t, r, k) ==
    IF k = 0 THEN Whole(0)
    ELSE LET w == weights[k]
             Add(prev, v) ==
                IF isna(prev) \/ v.kind # "num" THEN NULL
                ELSE NumAdd(prev, NumMul(IF w[3] THEN Inverted(v) ELSE v, w[2]))
         IN  Once({IF ~HasCol(t, Lbl(w[1])) THEN prev
                   ELSE Once({Add(prev, v) : v \in {Col(t, Lbl(w[1]))[r]}}) :
                   prev \in {WeightedSum(t, r, k - 1)}})

\* lines 394-396 without the factor 10 (a mutation)
normalized_unscaled(total) ==
    IF isna(total) THEN NULL
    ELSE Once({DivRound2(total, s) : s \in {SumAbsWeights(Len(weights))}})

\* lines 394-396: readiness * 10 / sum(abs(w)), rounded to 2 decimals
normalized(total) ==
    IF isna(total) THEN NULL
    ELSE Once({DivRound2(NumScale(total, 10), s) : s \in {SumAbsWeights(Len(weights))}})

\* the Readiness column of table t
calculate_readiness(t) ==
    [r \in 1..t.n |-> Once({normalized(total) : total \in {WeightedSum(t, r, Len(weights))}})]

\* calculate_readiness_score without the inversion of stress (a mutation)
calculate_readiness_score_raw_stress(sleep, mood, energy, stress) ==
    IF isna(sleep) \/ isna(mood) \/ isna(energy) \/ isna(stress) THEN NULL
    ELSE NumMul(NumAdd(NumAdd(sleep, mood), NumAdd(energy, stress)), Num(25, 2))

\* components/readiness.py: (sleep + mood + energy + (10 - stress)) / 4
calculate_readiness_score(sleep, mood, energy, stress) ==
    IF isna(sleep) \/ isna(mood) \/ isna(energy) \/ isna(stress) THEN NULL
    ELSE NumMul(NumAdd(NumAdd(sleep, mood), NumAdd(energy, Inverted(stress))), Num(25, 2))

\* components/readiness.py: "H:MM" to minutes
parse_sleep_text(sleep_text) ==
    IF isna(sleep_text) \/ (sleep_text.kind = "text" /\ sleep_text.s = <<>>)
       \/ (sleep_text.kind = "num" /\ sleep_text.m = 0)
    THEN NULL
    ELSE LET t == strip(str(sleep_text))
             colons == Occurrences(<<":">>, t)
             c == FirstMatch(colons)
             hours == float(SubSeq(t, 1, c - 1))
             minutes == float(SubSeq(t, c + 1, Len(t)))
         IN  IF Cardinality(colons) = 1 /\ ~isna(hours) /\ ~isna(minutes)
             THEN NumAdd(NumScale(hours, 60), minutes)
             ELSE NULL

ReadinessInputs == <<Lbl("Sleep"), Lbl("Mood"), Lbl("Energy"), Lbl("Stress")>>

\* add_readiness_column.  On a table without rows df.apply(axis=1) returns a
\* copy of the (empty) table, and assigning that table to the single column
\* Readiness raises.
with_sleep_minutes_from_text(t) ==
    IF HasCol(t, Lbl("SleepText"))
    THEN SetCol(t, Lbl("SleepMinutes"),
                [r \in 1..t.n |->
                    Once({parse_sleep_text(v) : v \in {Col(t, Lbl("SleepText"))[r]}})])
    ELSE t

with_readiness_score(t) ==
    IF \A i \in 1..4 : HasCol(t, ReadinessInputs[i])
    THEN IF t.n = 0 /\ Len(t.cols) > 1 THEN Raised
         ELSE SetCol(t, Lbl("Readiness"),
                     [r \in 1..t.n |->
                        Once({calculate_readiness_score(row[1], row[2], row[3], row[4]) :
                              row \in {[i \in 1..4 |-> Col(t, ReadinessInputs[i])[r]]}})])
    ELSE t

add_readiness_column(t) ==
    Once({with_readiness_score(t1) : t1 \in {with_sleep_minutes_from_text(t)}})

-----------------------------------------------------------------------------
(* normalize_dataframe                                                     *)

\* lines 145-155: the k-th repeat of a raw label gets the suffix _k; seen is
\* keyed by the raw labels only
dedup_labels(columns) ==
    [i \in 1..Len(columns) |->
        LET k == Cardinality({j \in 1..(i - 1) : columns[j] = columns[i]})
        IN  IF k = 0 THEN columns[i] ELSE Suffixed(columns[i], k)]

EmptyFrame(n) == Table(<<>>, <<>>, n)

\* the step of the loop of lines 223-247 with the last writer winning (a mutation)
rename_step_last_wins(d, j, acc) ==
    LET old_col == d.cols[j]
        new_col == new_col_of(old_col)
    IN  IF new_col # ""
        THEN [acc EXCEPT !.t = SetCol(@, Lbl(new_col), d.data[j]),
                         !.used = @ \cup {new_col}]
        ELSE IF ~HasCol(acc.t, old_col)
        THEN [acc EXCEPT !.t = SetCol(@, old_col, d.data[j])]
        ELSE acc

\* one iteration of the loop of lines 223-247.  d[old_col] is a table of
\* several columns when the label occurs more than once in d, and pandas
\* refuses to assign it to the single column renamed_df[...]: ValueError.
rename_step(d, j, acc) ==
    LET old_col == d.cols[j]
        new_col == new_col_of(old_col)
        several == Cardinality(Select(d, old_col)) > 1
    IN  IF new_col # "" /\ new_col \notin acc.used
        THEN IF several THEN [acc EXCEPT !.raised = TRUE]
             ELSE [acc EXCEPT !.t = SetCol(@, Lbl(new_col), d.data[j]),
                              !.used = @ \cup {new_col}]
        ELSE IF new_col \in acc.used
        THEN [acc EXCEPT !.skipped = Append(@, old_col)]
        ELSE IF ~HasCol(acc.t, old_col)
        THEN IF several THEN [acc EXCEPT !.raised = TRUE]
             ELSE [acc EXCEPT !.t = SetCol(@, old_col, d.data[j])]
        ELSE acc

RECURSIVE rename_loop(_, _)
rename_loop(d, j) ==
    IF j = 0
    THEN [t |-> EmptyFrame(d.n), used |-> {}, skipped |-> <<>>, raised |-> FALSE]
    ELSE Once({IF acc.raised THEN acc ELSE rename_step(d, j, acc) :
               acc \in {rename_loop(d, j - 1)}})

\* pd.to_datetime(..., errors='coerce') of one cell.  The date texts of the
\* model are "2024-01-0<d>"; any other text is unparseable (NaT); a number is
\* nanoseconds since the epoch, taken as day 0.
to_datetime(v) ==
    CASE v.kind = "ts" -> v
      [] v.kind = "text" /\ \E day \in 1..9 : v.s = DateChars(day) ->
            TS(CHOOSE day \in 1..9 : v.s = DateChars(day), 0)
      [] v.kind = "num" -> TS(0, 0)
      [] OTHER -> NULL

\* .dt.date followed by pd.to_datetime: midnight of the same day
date_of(v) == IF v.kind = "ts" THEN TS(v.m, 0) ELSE NULL

numeric_columns == <<"Sleep", "Mood", "Energy", "Stress", "Soreness", "Fatigue">>

RECURSIVE clean_columns(_, _)
clean_columns(t, k) ==
    IF k = 0 THEN t
    ELSE Once({IF HasCol(prev, Lbl(numeric_columns[k]))
               THEN SetCol(prev, Lbl(numeric_columns[k]),
                           [r \in 1..prev.n |->
                               Once({clean_numeric_value(v) :
                                     v \in {Col(prev, Lbl(numeric_columns[k]))[r]}})])
               ELSE prev :
               prev \in {clean_columns(t, k - 1)}})

\* the characters of the model in code-point order
char_order == <<" ", "+", "-", ".", "/", "0", "1", "2", "3", "4", "5", "6", "7", "8",
                "9", ":", "A", "B", "C", "D", "E", "F", "G", "H", "I", "J", "K", "L",
                "M", "N", "O", "P", "Q", "R", "S", "T", "U", "V", "W", "X", "Y", "Z",
                "a", "b", "c", "d", "e", "f", "g", "h", "i", "j", "k", "l", "m", "n",
                "o", "p", "q", "r", "s", "t", "u", "v", "w", "x", "y", "z">>

CharRank(c) == CHOOSE k \in 1..Len(char_order) : char_order[k] = c

RECURSIVE StrLess(_, _)
StrLess(a, b) ==
    IF b = <<>> THEN FALSE
    ELSE IF a = <<>> THEN TRUE
    ELSE IF a[1] = b[1] THEN StrLess(Tail(a), Tail(b))
    ELSE CharRank(a[1]) < CharRank(b[1])

\* the order sort_values puts cells in: missing values last
CellLess(a, b) ==
    IF isna(a) THEN FALSE
    ELSE IF isna(b) THEN TRUE
    ELSE CASE a.kind = "ts" /\ b.kind = "ts" -> a.m < b.m \/ (a.m = b.m /\ a.d < b.d)
           [] a.kind = "num" /\ b.kind = "num" -> NumLess(a, b)
           [] a.kind = "text" /\ b.kind = "text" -> StrLess(a.s, b.s)
           [] OTHER -> FALSE

\* row i comes before row j by the key columns, the first one deciding first
RECURSIVE KeyLess(_, _, _)
KeyLess(keys, i, j) ==
    IF keys = <<>> THEN FALSE
    ELSE \/ CellLess(keys[1][i], keys[1][j])
         \/ (~CellLess(keys[1][j], keys[1][i]) /\ KeyLess(Tail(keys), i, j))

\* the rows of t in the order given by perm
TakeRows(t, perm) ==
    [t EXCEPT !.data = [c \in ColIdx(t) |-> [p \in 1..Len(perm) |-> t.data[c][perm[p]]]],
              !.n = Len(perm)]

\* df.sort_values(by): ascending, rows with equal keys in their given order
\* (what the sort does on tables of the model's size)
sort_values(t, by) ==
    Once({TakeRows(t, [p \in 1..t.n |-> CHOOSE i \in 1..t.n : rank[i] = p]) :
          rank \in {Once({[i \in 1..t.n |->
                             Cardinality({j \in 1..t.n :
                                 \/ KeyLess(keys, j, i)
                                 \/ (~KeyLess(keys, i, j) /\ j < i)}) + 1] :
                          keys \in {[k \in 1..Len(by) |-> Col(t, by[k])]}})}})

\* the members of S below or at n, ascending
RECURSIVE Ascending(_, _)
Ascending(n, S) ==
    IF n = 0 THEN <<>>
    ELSE Ascending(n - 1, S) \o (IF n \in S THEN <<n>> ELSE <<>>)

\* df.dropna(how='all')
dropna_all(t) ==
    LET keep == {r \in 1..t.n : \E c \in ColIdx(t) : ~isna(t.data[c][r])}
    IN  IF Len(t.cols) = 0 THEN t ELSE TakeRows(t, Ascending(t.n, keep))

\* df.loc[:, ~df.columns.duplicated()]
drop_duplicated_columns(t) ==
    LET first == Ascending(Len(t.cols),
                           {c \in ColIdx(t) : \A b \in 1..(c - 1) : t.cols[b] # t.cols[c]})
    IN  [t EXCEPT !.cols = [k \in 1..Len(first) |-> t.cols[first[k]]],
                  !.data = [k \in 1..Len(first) |-> t.data[first[k]]]]

\* lines 253-256
with_dates(t) ==
    IF HasCol(t, Lbl("Timestamp"))
    THEN Once({SetCol(ts, Lbl("Date"), [r \in 1..ts.n |-> date_of(Col(ts, Lbl("Timestamp"))[r])]) :
               ts \in {SetCol(t, Lbl("Timestamp"),
                                [r \in 1..t.n |->
                                    Once({to_datetime(v) : v \in {Col(t, Lbl("Timestamp"))[r]}})])}})
    ELSE t

\* lines 259-260
with_sleep_minutes(t) ==
    IF HasCol(t, Lbl("SleepText"))
    THEN SetCol(t, Lbl("SleepMinutes"),
                [r \in 1..t.n |->
                    Once({parse_sleep_duration(v) : v \in {Col(t, Lbl("SleepText"))[r]}})])
    ELSE t

\* lines 270-272
with_readiness(t) ==
    IF \A k \in 1..Len(numeric_columns) : HasCol(t, Lbl(numeric_columns[k]))
    THEN SetCol(t, Lbl("Readiness"), calculate_readiness(t))
    ELSE t

\* lines 275-278
sorted_by_date(t) ==
    IF HasCol(t, Lbl("Date"))
    THEN Once({IF HasCol(byDate, Lbl("Athlete"))
               THEN sort_values(byDate, <<Lbl("Date"), Lbl("Athlete")>>)
               ELSE byDate :
               byDate \in {sort_values(t, <<Lbl("Date")>>)}})
    ELSE t

\* lines 284-287
unique_columns(t) == IF Distinct(t.cols) THEN t ELSE drop_duplicated_columns(t)

\* lines 252-289, on the renamed table
assemble(t0) ==
    Once({unique_columns(t6) : t6 \in
         {dropna_all(t5) : t5 \in
         {sorted_by_date(t4) : t4 \in
         {with_readiness(t3) : t3 \in
         {clean_columns(t2, Len(numeric_columns)) : t2 \in
         {with_sleep_minutes(t1) : t1 \in
         {with_dates(t0)}}}}}}})

\* lines 145-157: the table with its labels de-duplicated
relabelled(d) == [d EXCEPT !.cols = dedup_labels(d.cols)]

\* what the call prints: the labels after the duplicate handling and the
\* source columns skipped as duplicate mappings
printed(d) ==
    Once({[after_duplicates |-> labelled.cols,
           skipped |-> rename_loop(labelled, Len(labelled.cols)).skipped] :
          labelled \in {relabelled(d)}})

normalize_dataframe(d) ==
    Once({IF renamed.raised THEN Raised ELSE assemble(renamed.t) :
          renamed \in {rename_loop(labelled, Len(labelled.cols)) :
                       labelled \in {relabelled(d)}}})

-----------------------------------------------------------------------------
(* Specifications                                                          *)

MaxCols == 3

MaxPieces == 4

MaxDigits == 6

NoOutput == [after_duplicates |-> <<>>, skipped |-> <<>>]

NoArgs == [metric |-> "", athlete |-> NULL]

\* no analyst method has run: nothing raised, the collaborator not called
NoReturn == [raised |-> FALSE, called |-> FALSE, value |-> <<>>]

\* the part of the state the data-loading functions neither read nor write
LoaderOnly == numpy = "1.x" /\ arg = NoArgs /\ api = "unconfigured" /\ ret = NoReturn

\* st.cache_data with nothing stored: one cache for each cached function
NoCache == [fn \in {"load_google_sheet", "get_cached_insights"} |-> {}]

\* a fresh process and session: nothing cached, nothing requested, no chat
NoSession ==
    /\ cache = NoCache /\ now = 0 /\ calls = <<>> /\ chat_history = <<>>
    /\ env = [source |-> "ok", snapshot |-> "absent"]

\* ---- column reconciliation: normalize_dataframe on tables of one row ----

\* the labels of the source tables: a canonical name, a known phrasing, a
\* case/whitespace variant, an alias of Timestamp, two unknown labels of
\* which one has the suffixed form of the other
NormLabels ==
    {Lbl("Sleep"), Lbl("Sleep Quality"), Lbl(" sleep"), Lbl("Date"), Lbl("SleepText"),
     Lbl("X"), Suffixed(Lbl("X"), 1)}

\* the cells of the source tables: a rating text (no date) and a date text
\* (no rating)
NormCells ==
    {Text(<<"7", " ", "o", "u", "t", " ", "o", "f", " ", "1", "0">>),
     Text(DateChars(1))}

InitNormalize ==
    /\ \E k \in 1..MaxCols :
         \E cols \in [1..k -> NormLabels], cells \in [1..k -> NormCells] :
            raw = Table(cols, [j \in 1..k |-> <<cells[j]>>], 1)
    /\ df = raw
    /\ pc = "start"
    /\ stdout = NoOutput
    /\ out = EmptyFrame(0)
    /\ out2 = EmptyFrame(0)
    /\ text = NULL
    /\ res = NULL
    /\ LoaderOnly
    /\ NoSession

\* df = normalize_dataframe(df) at line 123; the caller's table object gets
\* the de-duplicated labels in place (line 157)
Normalize ==
    /\ pc = "start"
    /\ out' = normalize_dataframe(df)
    /\ stdout' = printed(df)
    /\ df' = relabelled(df)
    /\ pc' = "normalized"
    /\ UNCHANGED <<raw, out2, text, res>>
    /\ UNCHANGED <<numpy, arg, api, ret>>
    /\ UNCHANGED <<cache, now, calls, chat_history, env>>

\* normalize_dataframe applied to its own output
Renormalize ==
    /\ pc = "normalized"
    /\ ~out.err
    /\ out2' = normalize_dataframe(out)
    /\ pc' = "renormalized"
    /\ UNCHANGED <<raw, df, stdout, out, text, res>>
    /\ UNCHANGED <<numpy, arg, api, ret>>
    /\ UNCHANGED <<cache, now, calls, chat_history, env>>

NextNormalize == Normalize \/ Renormalize

SpecNormalize == InitNormalize /\ [][NextNormalize]_vars

\* ---- rating coercion: clean_numeric_value on texts ----

RECURSIVE Flatten(_)
Flatten(pieces) == IF pieces = <<>> THEN <<>> ELSE pieces[1] \o Flatten(Tail(pieces))

DigitCount(t) == Cardinality({i \in 1..Len(t) : t[i] \in Digit})

\* the texts of at most MaxPieces lexemes and MaxDigits digits
TextsOf(lexemes) ==
    {t \in UNION {{Flatten(p) : p \in [1..k -> lexemes]} : k \in 0..MaxPieces} :
        DigitCount(t) <= MaxDigits}

RatingLexemes ==
    {<<"7">>, <<"1", "0">>, <<".">>, <<"/">>, <<" ">>, <<"x">>,
     <<" ", "o", "u", "t", " ", "o", "f", " ">>, <<"O", "u", "t", " ", "O", "f">>}

InitCoerce ==
    /\ text \in {Text(t) : t \in TextsOf(RatingLexemes)}
    /\ res = NULL
    /\ pc = "start"
    /\ raw = EmptyFrame(0)
    /\ df = EmptyFrame(0)
    /\ stdout = NoOutput
    /\ out = EmptyFrame(0)
    /\ out2 = EmptyFrame(0)
    /\ LoaderOnly
    /\ NoSession

Coerce ==
    /\ pc = "start"
    /\ res' = clean_numeric_value(text)
    /\ pc' = "coerced"
    /\ UNCHANGED <<raw, df, stdout, out, out2, text>>
    /\ UNCHANGED <<numpy, arg, api, ret>>
    /\ UNCHANGED <<cache, now, calls, chat_history, env>>

NextCoerce == Coerce

SpecCoerce == InitCoerce /\ [][NextCoerce]_vars

\* ---- sleep duration: parse_sleep_duration on texts ----

SleepLexemes ==
    {<<"7">>, <<"3", "0">>, <<"5">>, <<"4", "5", "0">>, <<"1", "9">>, <<"2", "0">>,
     <<"h">>, <<"m">>, <<":">>, <<".">>}

InitSleep ==
    /\ text \in {Text(t) : t \in TextsOf(SleepLexemes)}
    /\ res = NULL
    /\ pc = "start"
    /\ raw = EmptyFrame(0)
    /\ df = EmptyFrame(0)
    /\ stdout = NoOutput
    /\ out = EmptyFrame(0)
    /\ out2 = EmptyFrame(0)
    /\ LoaderOnly
    /\ NoSession

ParseSleep ==
    /\ pc = "start"
    /\ res' = parse_sleep_duration(text)
    /\ pc' = "parsed"
    /\ UNCHANGED <<raw, df, stdout, out, out2, text>>
    /\ UNCHANGED <<numpy, arg, api, ret>>
    /\ UNCHANGED <<cache, now, calls, chat_history, env>>

NextSleep == ParseSleep

SpecSleep == InitSleep /\ [][NextSleep]_vars

\* ---- readiness: the load path and add_readiness_column on one row ----

MetricLabels == [k \in 1..6 |-> Lbl(numeric_columns[k])]

\* ratings of the four inputs of the simple formula, and of the other two
Ratings == {NULL, Whole(1), Whole(3), Whole(6), Whole(7), Whole(8), Whole(10)}

OtherRatings == {NULL, Whole(1), Whole(10)}

InitReadiness ==
    /\ \E four \in [1..4 -> Ratings], two \in [5..6 -> OtherRatings] :
          raw = Table(MetricLabels,
                      [k \in 1..6 |-> <<IF k <= 4 THEN four[k] ELSE two[k]>>], 1)
    /\ df = raw
    /\ pc = "start"
    /\ stdout = NoOutput
    /\ out = EmptyFrame(0)
    /\ out2 = EmptyFrame(0)
    /\ text = NULL
    /\ res = NULL
    /\ LoaderOnly
    /\ NoSession

\* calculate_readiness_score on the row's four ratings
Score ==
    /\ pc = "start"
    /\ res' = calculate_readiness_score(raw.data[1][1], raw.data[2][1],
                                        raw.data[3][1], raw.data[4][1])
    /\ pc' = "scored"
    /\ UNCHANGED <<raw, df, stdout, out, out2, text>>
    /\ UNCHANGED <<numpy, arg, api, ret>>
    /\ UNCHANGED <<cache, now, calls, chat_history, env>>

\* add_readiness_column on the loaded table
AddReadiness ==
    /\ pc = "normalized"
    /\ ~out.err
    /\ out2' = add_readiness_column(out)
    /\ pc' = "readiness_added"
    /\ UNCHANGED <<raw, df, stdout, out, text, res>>
    /\ UNCHANGED <<numpy, arg, api, ret>>
    /\ UNCHANGED <<cache, now, calls, chat_history, env>>

NextReadiness == Normalize \/ Score \/ AddReadiness

SpecReadiness == InitReadiness /\ [][NextReadiness]_vars

-----------------------------------------------------------------------------
(* Column reconciliation (SpecNormalize)                                   *)

CanonicalNames == {column_mapping[i][3] : i \in MapIdx}

\* the source columns whose label maps to the canonical name
SourcesOf(name) == {j \in ColIdx(raw) : new_col_of(raw.cols[j]) = name}

\* what the assembly makes of a source cell under a canonical name
Coerced(name, v) ==
    IF name = "Timestamp" THEN to_datetime(v)
    ELSE IF \E k \in 1..Len(numeric_columns) : numeric_columns[k] = name
    THEN clean_numeric_value(v)
    ELSE v

\* the output column of the canonical name holds the first source column's data
HoldsFirst(name) ==
    /\ HasCol(out, Lbl(name))
    /\ out.n = 1 => Col(out, Lbl(name))[1] = Coerced(name, raw.data[FirstMatch(SourcesOf(name))][1])

\* source column j reaches the output as a column of its own: its
\* de-duplicated label is unmapped and labels an output column
PassedThrough(j) ==
    /\ new_col_of(stdout.after_duplicates[j]) = ""
    /\ HasCol(out, stdout.after_duplicates[j])

\* C1: whenever normalize_dataframe returns a table, no two of its columns
\* have the same label, and for each canonical name that some source column
\* maps to, the output column of that name holds the data of the first such
\* source column.
C1_FirstWriterWins ==
    (pc # "start" /\ ~out.err) =>
        /\ Distinct(out.cols)
        /\ \A j \in ColIdx(raw) :
              new_col_of(raw.cols[j]) # "" => HoldsFirst(new_col_of(raw.cols[j]))

\* C1 witness: two differently labelled source columns with different
\* ratings map to Sleep, and the output Sleep column holds the first one's.
C1_Witness ==
    /\ pc = "normalized"
    /\ ~out.err
    /\ out.n = 1
    /\ \E i, j \in SourcesOf("Sleep") :
          /\ i < j
          /\ i = FirstMatch(SourcesOf("Sleep"))
          /\ raw.cols[i] # raw.cols[j]
          /\ clean_numeric_value(raw.data[i][1]) # clean_numeric_value(raw.data[j][1])
          /\ Col(out, Lbl("Sleep"))[1] = clean_numeric_value(raw.data[i][1])

\* C2 (as claimed): after the label de-duplication step all column labels
\* are pairwise distinct.
C2_DedupDistinct ==
    pc # "start" => Distinct(stdout.after_duplicates)

\* C3 (as claimed): when two source columns map to the same canonical name,
\* through two phrasings or through one label occurring twice, the call
\* completes without error, the output holds the first one's data under the
\* canonical name, and the later one's data is in no output column.
C3_LaterDropped ==
    pc # "start" =>
        \A name \in CanonicalNames : \A i, j \in SourcesOf(name) :
            i < j => /\ ~out.err
                     /\ HoldsFirst(name)
                     /\ ~PassedThrough(j)

\* C4 (as claimed): normalize_dataframe applied to its own output returns
\* it unchanged: same labels in the same order, same cells.
C4_Idempotent ==
    pc = "renormalized" => out2 = out

-----------------------------------------------------------------------------
(* Rating coercion (SpecCoerce)                                            *)

\* a separator starts at position i of t: "/" or "out of" in any case
SeparatorAt(t, i) ==
    t[i] = "/" \/ Slice(lower(t), i, i + 5) = <<"o", "u", "t", " ", "o", "f">>

AfterSeparator(t, i) ==
    IF t[i] = "/" THEN SubSeq(t, i + 1, Len(t)) ELSE Slice(t, i + 6, Len(t))

\* the positions of a separator that a number text precedes
NumeratorForms(t) ==
    {i \in 1..Len(t) : SeparatorAt(t, i) /\ ~isna(float(SubSeq(t, 1, i - 1)))}

\* C5 (amended): clean_numeric_value returns N for every text "N", and for
\* every text in which the number text N is followed by "/" or "out of",
\* whatever comes after the separator ("N/10", "N out of 10", but also
\* "N/x"); it returns null for every text of neither form.
C5_NumeratorBeforeSeparator ==
    pc = "coerced" =>
        LET t == strip(text.s)
        IN  /\ \A i \in NumeratorForms(t) : res = float(SubSeq(t, 1, i - 1))
            /\ ~isna(float(t)) => res = float(t)
            /\ (NumeratorForms(t) = {} /\ isna(float(t))) => isna(res)

\* C5 witness: "7 out of 10" is coerced to 7.
C5_Witness ==
    /\ pc = "coerced"
    /\ text.s = <<"7", " ", "o", "u", "t", " ", "o", "f", " ", "1", "0">>
    /\ IsNumber(res, 7)

\* C5 (as claimed): N for "N/10", "N out of 10" and "N", null for every
\* other text.
C5_NullForEveryOtherText ==
    pc = "coerced" =>
        LET t == strip(text.s)
            outOfTen == {i \in NumeratorForms(t) : strip(AfterSeparator(t, i)) = <<"1", "0">>}
        IN  /\ \A i \in outOfTen : res = float(SubSeq(t, 1, i - 1))
            /\ ~isna(float(t)) => res = float(t)
            /\ (outOfTen = {} /\ isna(float(t))) => isna(res)

-----------------------------------------------------------------------------
(* Sleep duration (SpecSleep)                                              *)

\* digits with an optional fraction, whitespace around it allowed
IsBareNumber(t) ==
    LET u == strip(t) IN u # <<>> /\ u[1] \in Digit /\ ~isna(float(u))

C7_HoursAndMinutes ==
    pc = "parsed" =>
        LET t == text.s
        IN  /\ \A i \in 2..(Len(t) - 1) :
                  (/\ t[i] \in {"h", ":"}
                   /\ AllDigits(SubSeq(t, 1, i - 1))
                   /\ AllDigits(SubSeq(t, i + 1, Len(t))))
                  => IsNumber(res, 60 * DigitsVal(SubSeq(t, 1, i - 1))
                                   + DigitsVal(SubSeq(t, i + 1, Len(t))))
            /\ t \in {<<"7", "h", "3", "0">>, <<"7", ":", "3", "0">>,
                      <<"7", ".", "5">>, <<"4", "5", "0">>} => IsNumber(res, 450)

-----------------------------------------------------------------------------
(* Readiness (SpecReadiness)                                               *)

\* the row's rating of the k-th metric, as fetched
Rating(k) == raw.data[k][1]

AllSixPresent == \A k \in 1..6 : ~isna(Rating(k))

Loaded == pc \in {"normalized", "readiness_added"} /\ ~out.err /\ out.n = 1

\* C8 (as claimed): with all six metrics in 1..10, the Readiness written by
\* normalize_dataframe lies in 0..10.
C8_ReadinessInRange ==
    (Loaded /\ AllSixPresent) =>
        LET r == Col(out, Lbl("Readiness"))[1]
        IN  r.kind = "num" /\ NumLeq(Whole(0), r) /\ NumLeq(r, Whole(10))

\* C9 (as claimed): for a row with all six metrics, add_readiness_column
\* leaves the Readiness of the loaded table unchanged.
C9_OneFormula ==
    (pc = "readiness_added" /\ AllSixPresent) =>
        /\ ~out2.err
        /\ out2.n = out.n
        /\ \A r \in 1..out.n :
              LET a == Col(out, Lbl("Readiness"))[r]
                  b == Col(out2, Lbl("Readiness"))[r]
              IN  a.kind = b.kind /\ (a.kind = "num" => NumEq(a, b))

\* the simple formula on the row's ratings (whole numbers), times 4
FourTimesSimple == Rating(1).m + Rating(2).m + Rating(3).m + (10 - Rating(4).m)

IsSimpleScore(v) ==
    IF \E k \in 1..4 : isna(Rating(k)) THEN isna(v)
    ELSE v.kind = "num" /\ NumEq(NumScale(v, 4), Whole(FourTimesSimple))

-----------------------------------------------------------------------------
(* Trend engine (components/trends.py)                                     *)

\* the two behaviours of np.select(conditions, [np.nan, 'UP', 'DOWN', 'FLAT'],
\* default=np.nan): numpy 1.x promotes float and str to a string dtype, and
\* the nan choice comes out as the text 'nan'; numpy 2.x keeps Python floats
\* weak, finds no common dtype and raises TypeError
NumpyBuilds == {"1.x", "2.x"}

\* f"{metric_col}{suffix}"
Derived(metric_col, suffix) == Lbl(metric_col \o suffix)

AllNull(n) == [r \in 1..n |-> NULL]

NumSub(a, b) == NumAdd(a, Num(0 - b.m, b.d))

LastOf(S) == CHOOSE i \in S : \A j \in S : j <= i

\* line 67, df.groupby('Athlete')[metric_col].shift(1) at row r: the metric
\* of the nearest row above r with the same athlete; rows without an athlete
\* are in no group
shifted(t, metric_col, r) ==
    LET athlete == Col(t, Lbl("Athlete"))
        above   == {q \in 1..(r - 1) : athlete[q] = athlete[r]}
    IN  IF isna(athlete[r]) \/ above = {} THEN NULL
        ELSE Col(t, Lbl(metric_col))[LastOf(above)]

\* line 68: NaN when either side is
diff_of(curr, prev) == IF isna(curr) \/ isna(prev) THEN NULL ELSE NumSub(curr, prev)

\* lines 71-80 for one row, on numpy 1.x
selected(diff) ==
    IF isna(diff) THEN Text(<<"n", "a", "n">>)
    ELSE IF diff.m > 0 THEN Text(<<"U", "P">>)
    ELSE IF diff.m < 0 THEN Text(<<"D", "O", "W", "N">>)
    ELSE Text(<<"F", "L", "A", "T">>)

compute_trend(t, metric_col) ==
    IF ~(\A l \in {"Athlete", "Date", metric_col} : HasCol(t, Lbl(l)))
    THEN SetCol(t, Derived(metric_col, "_Trend"), AllNull(t.n))
    ELSE IF numpy = "2.x" THEN Raised
    ELSE Once({SetCol(sorted, Derived(metric_col, "_Trend"),
                      [r \in 1..sorted.n |->
                          Once({selected(diff_of(Col(sorted, Lbl(metric_col))[r], prev)) :
                                prev \in {shifted(sorted, metric_col, r)}})]) :
               sorted \in {sort_values(t, <<Lbl("Athlete"), Lbl("Date")>>)}})

\* the metrics of add_all_trends and add_all_zscores
standard_metrics == <<"Sleep", "Mood", "Energy", "Stress", "Soreness", "Fatigue",
                      "Readiness", "SleepMinutes">>

\* the loop of lines 104-106 over the first k metrics; a raise ends it
RECURSIVE trends_added(_, _)
trends_added(t, k) ==
    IF k = 0 THEN t
    ELSE Once({IF prev.err \/ ~HasCol(prev, Lbl(standard_metrics[k])) THEN prev
               ELSE compute_trend(prev, standard_metrics[k]) :
               prev \in {trends_added(t, k - 1)}})

add_all_trends(t) == trends_added(t, Len(standard_metrics))

-----------------------------------------------------------------------------
(* Specification of the trend engine: a caller holds a table of wellness   *)
(* rows and asks for trends, of the table and of a reordering of it        *)

MaxTrendRows == 3

\* a submitted row: who, on which day, and the rating given
TrendRows == [athlete : {<<"A">>, <<"B">>}, day : 1..3,
              value : {NULL, Whole(5), Whole(7)}]

\* the table of the rows, the r-th submitted at time r of its day; a sheet
\* without a date column when ~dated
WellnessTable(rows, dated, metric_col) ==
    LET n == Len(rows)
    IN  Table(<<Lbl("Timestamp"), Lbl("Athlete")>>
                  \o (IF dated THEN <<Lbl("Date")>> ELSE <<>>) \o <<Lbl(metric_col)>>,
              <<[r \in 1..n |-> TS(rows[r].day, r)],
                [r \in 1..n |-> Text(rows[r].athlete)]>>
                  \o (IF dated THEN <<[r \in 1..n |-> TS(rows[r].day, 0)]>> ELSE <<>>)
                  \o <<[r \in 1..n |-> rows[r].value]>>,
              n)

Perms(n) == {p \in [1..n -> 1..n] : \A i, j \in 1..n : p[i] = p[j] => i = j}

InitTrend ==
    /\ numpy \in NumpyBuilds
    /\ \E n \in 0..MaxTrendRows : \E rows \in [1..n -> TrendRows], dated \in BOOLEAN :
          raw = WellnessTable(rows, dated, "Readiness")
    /\ df = raw
    /\ arg = [metric |-> "Readiness", athlete |-> NULL]
    /\ pc = "start"
    /\ stdout = NoOutput
    /\ out = EmptyFrame(0)
    /\ out2 = EmptyFrame(0)
    /\ text = NULL
    /\ res = NULL
    /\ api = "unconfigured"
    /\ ret = NoReturn
    /\ NoSession

\* compute_trend(df, metric)
ComputeTrend ==
    /\ pc = "start"
    /\ out' = compute_trend(df, arg.metric)
    /\ pc' = "trended"
    /\ UNCHANGED <<raw, df, stdout, out2, text, res, numpy, arg, api, ret>>
    /\ UNCHANGED <<cache, now, calls, chat_history, env>>

\* compute_trend on the same rows in another order
ComputeTrendReordered ==
    /\ pc = "trended"
    /\ \E perm \in Perms(raw.n) :
          /\ df' = TakeRows(raw, perm)
          /\ out2' = compute_trend(TakeRows(raw, perm), arg.metric)
    /\ pc' = "trended_reordered"
    /\ UNCHANGED <<raw, stdout, out, text, res, numpy, arg, api, ret>>
    /\ UNCHANGED <<cache, now, calls, chat_history, env>>

\* add_all_trends(df)
AddAllTrends ==
    /\ pc = "start"
    /\ out' = add_all_trends(df)
    /\ pc' = "trends_added"
    /\ UNCHANGED <<raw, df, stdout, out2, text, res, numpy, arg, api, ret>>
    /\ UNCHANGED <<cache, now, calls, chat_history, env>>

\* add_all_trends on what add_all_trends returned
AddAllTrendsAgain ==
    /\ pc = "trends_added"
    /\ ~out.err
    /\ out2' = add_all_trends(out)
    /\ pc' = "trends_added_twice"
    /\ UNCHANGED <<raw, df, stdout, out, text, res, numpy, arg, api, ret>>
    /\ UNCHANGED <<cache, now, calls, chat_history, env>>

NextTrend == ComputeTrend \/ ComputeTrendReordered \/ AddAllTrends \/ AddAllTrendsAgain

SpecTrend == InitTrend /\ [][NextTrend]_vars

-----------------------------------------------------------------------------
(* Z-score engine (components/zscores.py)                                  *)

\* a ratio with a square root in it, kept exact: the number whose sign is the
\* sign of m and whose square is |m| / d (d > 0)
Root(m, d) == [kind |-> "root", m |-> m, d |-> d, s |-> <<>>]

RECURSIVE SumPow(_, _)
SumPow(xs, k) == IF xs = <<>> THEN 0 ELSE Head(xs) ^ k + SumPow(Tail(xs), k)

\* line 60, df.groupby(by)[metric_col].agg(['mean', 'std']), as seen from row
\* r after the left merge of line 63: the non-null values of the metric in
\* the rows that agree with r on every column of by. Rows with a null key
\* are in no group and find no statistics. With xs the values and n their
\* number, mean = sum / n and pandas' std is the sample one (ddof = 1):
\* std ^ 2 = ss / (n * (n - 1)) for ss = n * sum((x - mean) ^ 2), and std is
\* null when n < 2. (The metric's values are whole numbers here.)
group_stats(t, metric_col, by, r) ==
    LET keyed  == \A k \in 1..Len(by) : ~isna(Col(t, Lbl(by[k]))[r])
        cohort == {q \in 1..t.n :
                     /\ \A k \in 1..Len(by) :
                           Col(t, Lbl(by[k]))[q] = Col(t, Lbl(by[k]))[r]
                     /\ ~isna(Col(t, Lbl(metric_col))[q])}
        rows   == Ascending(t.n, cohort)
        xs     == [i \in 1..Len(rows) |-> Col(t, Lbl(metric_col))[rows[i]].m]
    IN  [found |-> keyed /\ cohort # {},
         n     |-> Len(xs),
         sum   |-> SumPow(xs, 1),
         ss    |-> Len(xs) * SumPow(xs, 2) - SumPow(xs, 1) * SumPow(xs, 1)]

\* the division of line 69 taken for every row that found statistics (a
\* mutation)
std_positive_unguarded(g) == g.found

\* df['std'] > 0 at line 68: false for a null std
std_positive(g) == g.found /\ g.n >= 2 /\ g.ss > 0

\* lines 67-71 for one value x: (x - mean) / std where std > 0, else null;
\* (x - mean) / std = (n x - sum) * sqrt(n - 1) / sqrt(n * ss)
zscore_of(x, g) ==
    IF ~std_positive(g) \/ isna(x) THEN NULL
    ELSE LET dev == g.n * x.m - g.sum
         IN  Root((IF dev < 0 THEN 0 - 1 ELSE 1) * dev * dev * (g.n - 1), g.n * g.ss)

calculate_zscore_by_date(t, metric_col, by) ==
    IF ~HasCol(t, Lbl(metric_col))
    THEN SetCol(t, Derived(metric_col, "_ZScore"), AllNull(t.n))
    ELSE IF \E k \in 1..Len(by) : ~HasCol(t, Lbl(by[k]))
    THEN SetCol(t, Derived(metric_col, "_ZScore"), AllNull(t.n))
    ELSE SetCol(t, Derived(metric_col, "_ZScore"),
                [r \in 1..t.n |->
                    Once({zscore_of(Col(t, Lbl(metric_col))[r], g) :
                          g \in {group_stats(t, metric_col, by, r)}})])

\* the loop of lines 95-97 over the first k metrics (by = ['Date'])
RECURSIVE zscores_added(_, _)
zscores_added(t, k) ==
    IF k = 0 THEN t
    ELSE Once({IF ~HasCol(prev, Lbl(standard_metrics[k])) THEN prev
               ELSE calculate_zscore_by_date(prev, standard_metrics[k], <<"Date">>) :
               prev \in {zscores_added(t, k - 1)}})

add_all_zscores(t) == zscores_added(t, Len(standard_metrics))

-----------------------------------------------------------------------------
(* Specification of the z-score engine                                     *)

MaxCohortRows == 3

CohortRows == [athlete : {<<"A">>}, day : 1..2,
               value : {NULL, Whole(2), Whole(4), Whole(6)}]

InitZScore ==
    /\ numpy \in NumpyBuilds
    /\ \E n \in 0..MaxCohortRows : \E rows \in [1..n -> CohortRows], dated \in BOOLEAN :
          raw = WellnessTable(rows, dated, "Readiness")
    /\ df = raw
    /\ arg \in [metric : {"Readiness", "Mood"}, athlete : {NULL}]
    /\ pc = "start"
    /\ stdout = NoOutput
    /\ out = EmptyFrame(0)
    /\ out2 = EmptyFrame(0)
    /\ text = NULL
    /\ res = NULL
    /\ api = "unconfigured"
    /\ ret = NoReturn
    /\ NoSession

\* calculate_zscore_by_date(df, metric)
ZScoreByDate ==
    /\ pc = "start"
    /\ out' = calculate_zscore_by_date(df, arg.metric, <<"Date">>)
    /\ pc' = "zscored"
    /\ UNCHANGED <<raw, df, stdout, out2, text, res, numpy, arg, api, ret>>
    /\ UNCHANGED <<cache, now, calls, chat_history, env>>

\* add_all_zscores(df)
AddAllZScores ==
    /\ pc = "start"
    /\ out' = add_all_zscores(df)
    /\ pc' = "zscores_added"
    /\ UNCHANGED <<raw, df, stdout, out2, text, res, numpy, arg, api, ret>>
    /\ UNCHANGED <<cache, now, calls, chat_history, env>>

\* add_all_zscores on what add_all_zscores returned
AddAllZScoresAgain ==
    /\ pc = "zscores_added"
    /\ out2' = add_all_zscores(out)
    /\ pc' = "zscores_added_twice"
    /\ UNCHANGED <<raw, df, stdout, out, text, res, numpy, arg, api, ret>>
    /\ UNCHANGED <<cache, now, calls, chat_history, env>>

NextZScore == ZScoreByDate \/ AddAllZScores \/ AddAllZScoresAgain

SpecZScore == InitZScore /\ [][NextZScore]_vars


-----------------------------------------------------------------------------
(* Risk assessment (utils/ai_insights.py, predict_performance_risk)        *)

\* df[df['Athlete'] == athlete]
rows_of(t, athlete) ==
    Once({TakeRows(t, rows) :
          rows \in {Once({Ascending(t.n, {r \in 1..t.n : names[r] = athlete}) :
                          names \in {Col(t, Lbl("Athlete"))}})}})

\* df.tail(k)
tail(t, k) ==
    Once({TakeRows(t, rows) :
          rows \in {[i \in 1..(IF t.n < k THEN t.n ELSE k) |->
                       t.n - (IF t.n < k THEN t.n ELSE k) + i]}})

\* the non-null values of a column, in row order (whole numbers here)
values_of(t, l) ==
    Once({Once({[i \in 1..Len(rows) |-> column[rows[i]].m] :
                rows \in {Ascending(t.n, {r \in 1..t.n : ~isna(column[r])})}}) :
          column \in {Col(t, l)}})

\* Series.mean() < k and Series.mean() > k: the mean skips nulls, and is
\* null (neither below nor above anything) when nothing is left
mean_below(xs, k) == xs # <<>> /\ SumPow(xs, 1) < k * Len(xs)

mean_above(xs, k) == xs # <<>> /\ SumPow(xs, 1) > k * Len(xs)

\* Series.std() > k: the sample deviation of the non-null values, null for
\* fewer than two of them
std_above(xs, k) ==
    /\ Len(xs) >= 2
    /\ Len(xs) * SumPow(xs, 2) - SumPow(xs, 1) * SumPow(xs, 1)
           > k * k * Len(xs) * (Len(xs) - 1)

\* line 430: recent['Readiness'].iloc[-1] - recent['Readiness'].iloc[0] < -1
declining(recent) ==
    LET first == Col(recent, Lbl("Readiness"))[1]
        last  == Col(recent, Lbl("Readiness"))[recent.n]
    IN  ~isna(first) /\ ~isna(last) /\ NumLess(NumSub(last, first), Whole(0 - 1))

\* lines 421-454 with the stress rule at weight 1 (a mutation)
risk_rules_light_stress(recent) ==
    << [fired  |-> HasCol(recent, Lbl("Readiness"))
                     /\ mean_below(values_of(recent, Lbl("Readiness")), 5),
        factor |-> "Low average readiness", score |-> 2],
       [fired  |-> HasCol(recent, Lbl("Readiness")) /\ recent.n > 1 /\ declining(recent),
        factor |-> "Declining readiness trend", score |-> 1],
       [fired  |-> HasCol(recent, Lbl("Stress"))
                     /\ mean_above(values_of(recent, Lbl("Stress")), 7),
        factor |-> "High stress levels", score |-> 1],
       [fired  |-> HasCol(recent, Lbl("SleepMinutes"))
                     /\ std_above(values_of(recent, Lbl("SleepMinutes")), 90),
        factor |-> "Inconsistent sleep patterns", score |-> 1],
       [fired  |-> HasCol(recent, Lbl("Fatigue"))
                     /\ mean_above(values_of(recent, Lbl("Fatigue")), 7),
        factor |-> "High fatigue", score |-> 2] >>

\* lines 421-454: the five checks in the order of the code, each with
\* whether it fires on the window, the factor it appends (without the
\* formatted mean) and what it adds to risk_score
risk_rules(recent) ==
    << [fired  |-> HasCol(recent, Lbl("Readiness"))
                     /\ mean_below(values_of(recent, Lbl("Readiness")), 5),
        factor |-> "Low average readiness", score |-> 2],
       [fired  |-> HasCol(recent, Lbl("Readiness")) /\ recent.n > 1 /\ declining(recent),
        factor |-> "Declining readiness trend", score |-> 1],
       [fired  |-> HasCol(recent, Lbl("Stress"))
                     /\ mean_above(values_of(recent, Lbl("Stress")), 7),
        factor |-> "High stress levels", score |-> 2],
       [fired  |-> HasCol(recent, Lbl("SleepMinutes"))
                     /\ std_above(values_of(recent, Lbl("SleepMinutes")), 90),
        factor |-> "Inconsistent sleep patterns", score |-> 1],
       [fired  |-> HasCol(recent, Lbl("Fatigue"))
                     /\ mean_above(values_of(recent, Lbl("Fatigue")), 7),
        factor |-> "High fatigue", score |-> 2] >>

RECURSIVE total_score(_)
total_score(rules) ==
    IF rules = <<>> THEN 0 ELSE Head(rules).score + total_score(Tail(rules))

\* lines 457-464
risk_level_of(risk_score) ==
    IF risk_score >= 5 THEN "high"
    ELSE IF risk_score >= 3 THEN "moderate"
    ELSE IF risk_score >= 1 THEN "low"
    ELSE "minimal"

\* _get_risk_recommendation: which of the five texts
recommendation_of(risk_level) ==
    IF risk_level \in {"high", "moderate", "low", "minimal"}
    THEN "recommendation for " \o risk_level
    ELSE "Continue monitoring wellness metrics."

\* lines 414-471: the dictionary returned for the rows of the athlete
assessment(athlete_df) ==
    Once({[risk_level     |-> risk_level_of(total_score(fired)),
           risk_score     |-> total_score(fired),
           factors        |-> [i \in 1..Len(fired) |-> fired[i].factor],
           recommendation |-> recommendation_of(risk_level_of(total_score(fired)))] :
          fired \in {Once({SelectSeq(risk_rules(recent), LAMBDA rule : rule.fired) :
                           recent \in {tail(sort_values(athlete_df, <<Lbl("Date")>>), 7)}})}})

\* predict_performance_risk(df, athlete)
predict_performance_risk(t, athlete) ==
    Once({IF athlete_df.n = 0 THEN [risk_level |-> "unknown", factors |-> <<>>]
          ELSE assessment(athlete_df) :
          athlete_df \in {rows_of(t, athlete)}})

-----------------------------------------------------------------------------
(* Specification of the risk assessment: a table of one athlete's days,    *)
(* latest first, with perhaps a row of somebody else                       *)

MaxRiskRows == 8

\* a good day, a bad day, and a tense day with no readiness
DayProfiles ==
    { [Readiness |-> Whole(8), Stress |-> Whole(3), SleepMinutes |-> Whole(480),
       Fatigue |-> Whole(3)],
      [Readiness |-> Whole(3), Stress |-> Whole(9), SleepMinutes |-> Whole(300),
       Fatigue |-> Whole(9)],
      [Readiness |-> NULL, Stress |-> Whole(9), SleepMinutes |-> Whole(390),
       Fatigue |-> Whole(3)] }

RiskTable(days, other, with_sleep) ==
    LET n == Len(days)
    IN  Table(<<Lbl("Athlete"), Lbl("Date"), Lbl("Readiness"), Lbl("Stress"),
                Lbl("Fatigue")>>
                  \o (IF with_sleep THEN <<Lbl("SleepMinutes")>> ELSE <<>>),
              <<[r \in 1..n |-> Text(IF other /\ r = n THEN <<"B">> ELSE <<"A">>)],
                [r \in 1..n |-> TS(n + 1 - r, 0)],
                [r \in 1..n |-> days[r].Readiness],
                [r \in 1..n |-> days[r].Stress],
                [r \in 1..n |-> days[r].Fatigue]>>
                  \o (IF with_sleep THEN <<[r \in 1..n |-> days[r].SleepMinutes]>>
                      ELSE <<>>),
              n)

\* (nothing on this path depends on the numpy release)
InitRisk ==
    /\ numpy = "1.x"
    /\ \E n \in 0..MaxRiskRows :
          \E days \in [1..n -> DayProfiles],
             sheet \in {<<FALSE, TRUE>>, <<TRUE, TRUE>>, <<FALSE, FALSE>>} :
             raw = RiskTable(days, sheet[1], sheet[2])
    /\ df = raw
    /\ arg = [metric |-> "", athlete |-> Text(<<"A">>)]
    /\ pc = "start"
    /\ stdout = NoOutput
    /\ out = EmptyFrame(0)
    /\ out2 = EmptyFrame(0)
    /\ text = NULL
    /\ res = NULL
    /\ api = "unconfigured"
    /\ ret = NoReturn
    /\ NoSession

\* risk_assessment = analyst.predict_performance_risk(df, athlete), line 57
\* of the risk tab of render_ai_insights_panel
PredictRisk ==
    /\ pc = "start"
    /\ res' = predict_performance_risk(df, arg.athlete)
    /\ pc' = "assessed"
    /\ UNCHANGED <<raw, df, stdout, out, out2, text, numpy, arg, api, ret>>
    /\ UNCHANGED <<cache, now, calls, chat_history, env>>

\* the rest of the risk tab, lines 59-89: risk_level, recommendation and
\* factors of the assessment are shown; a missing key is a KeyError
RenderRisk ==
    /\ pc = "assessed"
    /\ ret' = IF {"risk_level", "recommendation", "factors"} \subseteq DOMAIN res
              THEN [raised |-> FALSE, called |-> FALSE,
                    value |-> <<res.risk_level, res.recommendation>> \o res.factors]
              ELSE [raised |-> TRUE, called |-> FALSE, value |-> <<>>]
    /\ pc' = "rendered"
    /\ UNCHANGED <<raw, df, stdout, out, out2, text, res, numpy, arg, api>>
    /\ UNCHANGED <<cache, now, calls, chat_history, env>>

NextRisk == PredictRisk \/ RenderRisk

SpecRisk == InitRisk /\ [][NextRisk]_vars

-----------------------------------------------------------------------------
(* Narrative insights (utils/ai_insights.py)                               *)

\* the argument value None; a missing cell of a table (NaN, NaT) is NULL
None == [kind |-> "none", m |-> 0, d |-> 0, s |-> <<>>]

\* "if athlete:", line 85: None and the empty string are false, every other
\* name is true, and so is NaN
truthy(athlete) == ~(athlete.kind = "none" \/ athlete = Text(<<>>))

\* the date a is not before the date b less the period of days
within(a, b, days) == a.m > b.m - days \/ (a.m = b.m - days /\ a.d >= b.d)

\* lines 85-93: the rows of the digest window in table order. Without an
\* athlete all rows pass; with one, the rows whose Athlete cell equals it
\* (NaN equals nothing). If there is a Date column, the rows dated within
\* the period before the latest date pass (a comparison with NaT is false)
window_rows(t, athlete, days) ==
    LET filtered == IF truthy(athlete)
                    THEN {r \in 1..t.n : /\ ~isna(athlete)
                                         /\ Col(t, Lbl("Athlete"))[r] = athlete}
                    ELSE 1..t.n
    IN  IF ~HasCol(t, Lbl("Date")) THEN filtered
        ELSE LET dates == Col(t, Lbl("Date"))
                 dated == {r \in filtered : dates[r].kind = "ts"}
             IN  {r \in dated : \A q \in dated : within(dates[r], dates[q], days)}

\* line 116: the metrics of the digest
digest_metrics == {numeric_columns[k] : k \in 1..Len(numeric_columns)} \cup {"Readiness"}

\* lines 117-122: the metrics of one row that are in the table and not null
\* (round(float(value), 2) leaves the model's one-decimal numbers as they are)
current_status(t, r) ==
    {<<metric, Col(t, Lbl(metric))[r]>> :
        metric \in {m \in digest_metrics :
                        HasCol(t, Lbl(m)) /\ ~isna(Col(t, Lbl(m))[r])}}

\* lines 124-127: the trend labels of one row, null ones too
trends(t, r) ==
    {<<metric, Col(t, Derived(metric, "_Trend"))[r]>> :
        metric \in {m \in digest_metrics :
                        HasCol(t, Derived(m, "_Trend"))}}

\* prepare_data_summary(df, athlete, days), as far as the callers and the
\* collaborator's request depend on it. Line 86 is a KeyError when an
\* athlete is given and the table has no Athlete column; lines 103-104
\* format the earliest and latest date of the window and raise when the
\* window of a table with a Date column is empty; lines 114-127 take
\* current_status and trends from data.iloc[-1], the last row of the window
\* in table order
prepare_data_summary(t, athlete, days) ==
    IF truthy(athlete) /\ ~HasCol(t, Lbl("Athlete"))
    THEN [raised |-> TRUE, data_points |-> 0, current_status |-> {}, trends |-> {}]
    ELSE Once({[raised         |-> HasCol(t, Lbl("Date")) /\ kept = {},
                data_points    |-> Cardinality(kept),
                current_status |-> IF kept = {} THEN {} ELSE current_status(t, LastOf(kept)),
                trends         |-> IF kept = {} THEN {} ELSE trends(t, LastOf(kept))] :
               kept \in {window_rows(t, athlete, days)}})

\* the try block of lines 230-244, 317-331 and 376-390 without its except
\* clause (a mutation)
completion_uncaught(error_prefix) ==
    IF api = "fails"
    THEN [raised |-> TRUE, called |-> TRUE, value |-> <<>>]
    ELSE [raised |-> FALSE, called |-> TRUE, value |-> <<"insight text">>]

\* the try block of lines 230-244, 317-331 and 376-390: the collaborator is
\* called; its answer is returned, and whatever it raises becomes the text
\* f"{error_prefix}{str(e)}"
completion(error_prefix) ==
    IF api = "fails"
    THEN [raised |-> FALSE, called |-> TRUE, value |-> <<error_prefix, "str(e)">>]
    ELSE [raised |-> FALSE, called |-> TRUE, value |-> <<"insight text">>]

\* what a method does that raises before the collaborator is reached, and
\* what one returns that has no client
raised_before_call == [raised |-> TRUE, called |-> FALSE, value |-> <<>>]

not_configured == [raised |-> FALSE, called |-> FALSE,
                   value |-> <<"OpenAI API key not configured.">>]

\* generate_athlete_insights(data_summary)
generate_athlete_insights(data_summary) ==
    IF api = "unconfigured" THEN not_configured
    ELSE completion("Error generating insights: ")

\* generate_team_insights(df): the summaries of lines 286-293, one per
\* athlete of the table, are prepared outside the try block
generate_team_insights(t) ==
    IF api = "unconfigured" THEN not_configured
    ELSE IF /\ HasCol(t, Lbl("Athlete"))
            /\ \E r \in 1..t.n : prepare_data_summary(t, Col(t, Lbl("Athlete"))[r], 14).raised
    THEN raised_before_call
    ELSE completion("Error generating team insights: ")

\* generate_comparative_analysis(df, athlete1, athlete2): the two summaries
\* of lines 356-357 are prepared outside the try block
generate_comparative_analysis(t, athlete1, athlete2) ==
    IF api = "unconfigured" THEN not_configured
    ELSE IF \E a \in {athlete1, athlete2} : prepare_data_summary(t, a, 14).raised
    THEN raised_before_call
    ELSE completion("Error generating comparison: ")

\* 'athlete2' in kwargs and kwargs['athlete2'] for keyword arguments given
\* as a sequence of <<name, value>> pairs
given(kwargs, name) == {i \in 1..Len(kwargs) : kwargs[i][1] = name}

\* the body of get_cached_insights(df, athlete, insight_type, **kwargs),
\* lines 503-513
get_cached_insights(t, athlete, insight_type, kwargs) ==
    IF insight_type = "individual"
    THEN IF prepare_data_summary(t, athlete, 14).raised THEN raised_before_call
         ELSE generate_athlete_insights(prepare_data_summary(t, athlete, 14))
    ELSE IF insight_type = "team" THEN generate_team_insights(t)
    ELSE IF insight_type = "comparison" /\ given(kwargs, "athlete2") # {}
    THEN generate_comparative_analysis(t, athlete,
                                       kwargs[FirstMatch(given(kwargs, "athlete2"))][2])
    ELSE [raised |-> FALSE, called |-> FALSE,
          value |-> <<"Invalid insight type requested.">>]

-----------------------------------------------------------------------------
(* Specification of the narrative insights: get_cached_insights on a small *)
(* table, with a collaborator that is not configured, fails or answers     *)

MaxInsightRows == 2

InsightRows == [athlete : {Text(<<"A">>), Text(<<"B">>), NULL},
                date : {NULL, TS(1, 0), TS(2, 0)},
                value : {NULL, Whole(5)}]

InitInsights ==
    /\ numpy = "1.x"
    /\ api \in {"unconfigured", "fails", "answers"}
    /\ \E n \in 0..MaxInsightRows : \E rows \in [1..n -> InsightRows], dated \in BOOLEAN :
          raw = Table(<<Lbl("Athlete")>> \o (IF dated THEN <<Lbl("Date")>> ELSE <<>>)
                          \o <<Lbl("Readiness")>>,
                      <<[r \in 1..n |-> rows[r].athlete]>>
                          \o (IF dated THEN <<[r \in 1..n |-> rows[r].date]>> ELSE <<>>)
                          \o <<[r \in 1..n |-> rows[r].value]>>,
                      n)
    /\ df = raw
    /\ arg = [metric |-> "", athlete |-> Text(<<"A">>)]
    /\ pc = "start"
    /\ stdout = NoOutput
    /\ out = EmptyFrame(0)
    /\ out2 = EmptyFrame(0)
    /\ text = NULL
    /\ res = NULL
    /\ ret = NoReturn
    /\ NoSession

\* get_cached_insights(df, athlete, "individual"), lines 505-507
AthleteInsights ==
    /\ pc = "start"
    /\ ret' = get_cached_insights(df, arg.athlete, "individual", <<>>)
    /\ pc' = "athlete_insights"
    /\ UNCHANGED <<raw, df, stdout, out, out2, text, res, numpy, arg, api>>
    /\ UNCHANGED <<cache, now, calls, chat_history, env>>

\* get_cached_insights(df, athlete, "team"), lines 508-509
TeamInsights ==
    /\ pc = "start"
    /\ ret' = get_cached_insights(df, None, "team", <<>>)
    /\ pc' = "team_insights"
    /\ UNCHANGED <<raw, df, stdout, out, out2, text, res, numpy, arg, api>>
    /\ UNCHANGED <<cache, now, calls, chat_history, env>>

\* get_cached_insights(df, athlete, "comparison", athlete2='B'), lines 510-511
ComparativeAnalysis ==
    /\ pc = "start"
    /\ ret' = get_cached_insights(df, arg.athlete, "comparison",
                                   <<<<"athlete2", Text(<<"B">>)>>>>)
    /\ pc' = "comparison"
    /\ UNCHANGED <<raw, df, stdout, out, out2, text, res, numpy, arg, api>>
    /\ UNCHANGED <<cache, now, calls, chat_history, env>>

\* analyst.prepare_data_summary(df, athlete) and
\* analyst.prepare_data_summary(df), as lines 506 of ai_insights.py and
\* 229-232 of ai_insights_ui.py call it
PrepareDataSummary ==
    /\ pc = "start"
    /\ \E athlete \in {None, Text(<<"A">>)} :
         \E data_summary \in {prepare_data_summary(df, athlete, 14)} :
            /\ arg' = [arg EXCEPT !.athlete = athlete]
            /\ res' = data_summary
            /\ ret' = [raised |-> data_summary.raised, called |-> FALSE, value |-> <<>>]
    /\ pc' = "summary"
    /\ UNCHANGED <<raw, df, stdout, out, out2, text, numpy, api>>
    /\ UNCHANGED <<cache, now, calls, chat_history, env>>

NextInsights == AthleteInsights \/ TeamInsights \/ ComparativeAnalysis \/ PrepareDataSummary

SpecInsights == InitInsights /\ [][NextInsights]_vars

-----------------------------------------------------------------------------
(* The session: st.cache_data around load_google_sheet and                 *)
(* get_cached_insights, and refresh_data                                   *)

\* the clock counts periods of five minutes: ttl=300 at line 45 of
\* data_loader.py, ttl=3600 at line 484 of ai_insights.py
ttl(fn) == IF fn = "load_google_sheet" THEN 1 ELSE 12

\* a cache key that leaves the keyword arguments out (a mutation)
cache_key_positional(args) == IF Len(args) = 4 THEN [args EXCEPT ![4] = <<>>] ELSE args

\* st.cache_data: the key of an entry is made of every argument of the call,
\* positional and keyword
cache_key(args) == args

\* st.cache_data without a ttl (a mutation)
fresh_forever(fn, key) == {e \in cache[fn] : e.key = key}

\* st.cache_data: the entries of a function for an argument tuple that have
\* not expired; an entry expires when its age reaches the ttl
fresh(fn, key) == {e \in cache[fn] : e.key = key /\ now - e.at < ttl(fn)}

\* a cache that keeps the collaborator's answers only (a mutation)
stored_answers(fn, key, value) ==
    IF fn = "get_cached_insights" /\ value # <<"insight text">> THEN cache
    ELSE [cache EXCEPT ![fn] = {e \in @ : e.key # key /\ now - e.at < ttl(fn)}
                                   \cup {[key |-> key, value |-> value, at |-> now]}]

\* st.cache_data after a call that returned value: the entry of the key is
\* replaced, the expired entries of the function are dropped
stored(fn, key, value) ==
    [cache EXCEPT ![fn] = {e \in @ : e.key # key /\ now - e.at < ttl(fn)}
                              \cup {[key |-> key, value |-> value, at |-> now]}]

\* data/example_export.csv as pd.read_csv returns it
example_export ==
    Table(<<Lbl("Athlete"), Lbl("Timestamp")>>,
          <<<<Text(<<"B">>)>>, <<Text(DateChars(2))>>>>, 1)

\* the except clause of lines 103-118 with the test of use_fallback left out
\* (a mutation)
fallback_always(use_fallback) == env.snapshot # "absent"

\* line 108: use_fallback and os.path.exists("data/example_export.csv")
fallback(use_fallback) == use_fallback /\ env.snapshot # "absent"

\* the body of load_google_sheet(use_fallback=...), lines 65-123: the
\* requests it makes in their order, whether it raises and which error, and
\* the table it returns. Without credentials line 69 raises before the
\* source is contacted; a sheet without records raises at line 99
load_google_sheet(use_fallback) ==
    LET attempted == IF env.source = "no_credentials" THEN <<>> ELSE <<"source">>
        fetched   == env.source = "ok" /\ raw.n > 0 /\ raw.cols # <<>>
        read      == ~fetched /\ fallback(use_fallback)
        loaded    == IF fetched THEN raw ELSE example_export
        requests  == IF read THEN Append(attempted, "snapshot") ELSE attempted
    IN  IF ~fetched /\ ~read
        THEN [requests |-> requests, raised |-> TRUE, error |-> "original",
              table |-> EmptyFrame(0)]
        ELSE IF read /\ env.snapshot = "unreadable"
        THEN [requests |-> requests, raised |-> TRUE, error |-> "read_csv",
              table |-> EmptyFrame(0)]
        ELSE Once({IF t.err
                   THEN [requests |-> requests, raised |-> TRUE,
                         error |-> "normalize_dataframe", table |-> EmptyFrame(0)]
                   ELSE [requests |-> requests, raised |-> FALSE, error |-> "",
                         table |-> t] :
                   t \in {normalize_dataframe(loaded)}})

-----------------------------------------------------------------------------
(* Specifications of the session: the calls a page makes at a few moments  *)
(* of an hour (SpecSession), and load_google_sheet against every behaviour *)
(* of the source and the snapshot (SpecLoad)                               *)

MaxCalls == 4

MaxTime == 12

\* the sheet of the session
form_responses ==
    Table(<<Lbl("Athlete"), Lbl("Timestamp")>>,
          <<<<Text(<<"A">>)>>, <<Text(DateChars(1))>>>>, 1)

\* the calls of get_cached_insights: an athlete's insights (line 38 of
\* ai_insights_ui.py), also with a period, the comparison (line 188) with
\* two choices of the second athlete, and a call of no known type
InsightCalls ==
    {[athlete |-> Text(<<"A">>), insight_type |-> "individual", kwargs |-> <<>>],
     [athlete |-> Text(<<"A">>), insight_type |-> "individual",
      kwargs |-> <<<<"days", Whole(7)>>>>],
     [athlete |-> Text(<<"A">>), insight_type |-> "comparison",
      kwargs |-> <<<<"athlete2", Text(<<"B">>)>>>>],
     [athlete |-> Text(<<"A">>), insight_type |-> "comparison",
      kwargs |-> <<<<"athlete2", Text(<<"A">>)>>>>],
     [athlete |-> Text(<<"A">>), insight_type |-> "weekly", kwargs |-> <<>>]}

StartOfSession ==
    /\ numpy = "1.x"
    /\ arg = NoArgs
    /\ ret = NoReturn
    /\ df = EmptyFrame(0)
    /\ pc = "start"
    /\ stdout = NoOutput
    /\ out = EmptyFrame(0)
    /\ out2 = EmptyFrame(0)
    /\ text = NULL
    /\ res = NULL
    /\ cache = NoCache /\ now = 0 /\ calls = <<>> /\ chat_history = <<>>

InitSession ==
    /\ api \in {"unconfigured", "fails", "answers"}
    /\ env \in [source : {"ok", "fails"}, snapshot : {"present"}]
    /\ raw = form_responses
    /\ StartOfSession

InitLoad ==
    /\ api = "unconfigured"
    /\ env \in [source : {"ok", "fails", "no_credentials"},
                snapshot : {"absent", "present", "unreadable"}]
    /\ \E k \in 0..1 :
         \E cols \in [1..k -> NormLabels], cells \in [1..k -> NormCells] :
            raw = Table(cols, [j \in 1..k |-> <<cells[j]>>], k)
    /\ StartOfSession

\* st.cache_data.clear() emptying the cache of load_google_sheet only (a
\* mutation)
clear_loader == [cache EXCEPT !["load_google_sheet"] = {}]

\* st.cache_data.clear(), line 401 of data_loader.py: the caches of all
\* cached functions are emptied
clear == NoCache

\* df = load_google_sheet(use_fallback=...) behind st.cache_data(ttl=300):
\* a fresh entry is returned as it is; otherwise the body runs, and what it
\* returns is stored. A raise stores nothing and leaves the caller without
\* a table
LoadGoogleSheet ==
    /\ Len(calls) < MaxCalls
    /\ \E use_fallback \in BOOLEAN :
         \E hits \in {fresh("load_google_sheet", cache_key(<<use_fallback>>))} :
            IF hits # {}
            THEN /\ df' = Once(hits).value
                 /\ ret' = NoReturn
                 /\ calls' = Append(calls, [op |-> "load_google_sheet",
                                            key |-> <<use_fallback>>,
                                            at |-> now, hit |-> TRUE, requests |-> <<>>,
                                            raised |-> FALSE, error |-> "", value |-> <<>>])
                 /\ UNCHANGED <<cache, stdout>>
            ELSE \E body \in {load_google_sheet(use_fallback)} :
                 /\ df' = body.table
                 /\ ret' = [raised |-> body.raised, called |-> FALSE, value |-> <<>>]
                 /\ calls' = Append(calls, [op |-> "load_google_sheet",
                                            key |-> <<use_fallback>>,
                                            at |-> now, hit |-> FALSE,
                                            requests |-> body.requests,
                                            raised |-> body.raised, error |-> body.error,
                                            value |-> <<>>])
                 /\ cache' = IF body.raised THEN cache
                             ELSE stored("load_google_sheet", cache_key(<<use_fallback>>),
                                         body.table)
                 /\ stdout' = IF body.error \in {"", "normalize_dataframe"}
                              THEN printed(IF "snapshot" \in {body.requests[i] :
                                                   i \in 1..Len(body.requests)}
                                           THEN example_export ELSE raw)
                              ELSE stdout
    /\ pc' = "loaded"
    /\ UNCHANGED <<raw, out, out2, text, res, numpy, arg, api, now, chat_history, env>>

\* get_cached_insights(df, athlete, insight_type, **kwargs) behind
\* st.cache_data(ttl=3600), called with the table the page has loaded
GetCachedInsights ==
    /\ Len(calls) < MaxCalls
    /\ df # EmptyFrame(0)
    /\ \E c \in InsightCalls :
         \E key \in {<<df, c.athlete, c.insight_type, c.kwargs>>} :
         \E hits \in {fresh("get_cached_insights", cache_key(key))} :
            IF hits # {}
            THEN /\ ret' = [raised |-> FALSE, called |-> FALSE, value |-> Once(hits).value]
                 /\ calls' = Append(calls, [op |-> "get_cached_insights", key |-> key,
                                            at |-> now, hit |-> TRUE, requests |-> <<>>,
                                            raised |-> FALSE, error |-> "",
                                            value |-> Once(hits).value])
                 /\ UNCHANGED cache
            ELSE \E body \in {get_cached_insights(df, c.athlete, c.insight_type, c.kwargs)} :
                 /\ ret' = body
                 /\ calls' = Append(calls, [op |-> "get_cached_insights", key |-> key,
                                            at |-> now, hit |-> FALSE,
                                            requests |-> IF body.called
                                                         THEN <<"narrative">> ELSE <<>>,
                                            raised |-> body.raised,
                                            error |-> IF body.raised THEN "original" ELSE "",
                                            value |-> body.value])
                 /\ cache' = IF body.raised THEN cache
                             ELSE stored("get_cached_insights", cache_key(key), body.value)
    /\ pc' = "insights"
    /\ UNCHANGED <<raw, df, stdout, out, out2, text, res, numpy, arg, api, now,
                   chat_history, env>>

\* refresh_data(), lines 399-402 of data_loader.py: st.cache_data.clear()
\* empties the caches of every cached function
RefreshData ==
    /\ Len(calls) < MaxCalls
    /\ cache' = clear
    /\ calls' = Append(calls, [op |-> "refresh_data", key |-> <<>>, at |-> now,
                               hit |-> FALSE, requests |-> <<>>, raised |-> FALSE,
                               error |-> "", value |-> <<>>])
    /\ ret' = NoReturn
    /\ pc' = "refreshed"
    /\ UNCHANGED <<raw, df, stdout, out, out2, text, res, numpy, arg, api, now,
                   chat_history, env>>

\* time passes between two calls: five minutes after the start of the
\* session, then up to the end of the hour
Tick ==
    /\ now < MaxTime
    /\ now' = IF now = 0 THEN 1 ELSE MaxTime
    /\ UNCHANGED <<pc, raw, df, stdout, out, out2, text, res, numpy, arg, api, ret,
                   cache, calls, chat_history, env>>

NextSession == LoadGoogleSheet \/ GetCachedInsights \/ RefreshData \/ Tick

SpecSession == InitSession /\ [][NextSession]_vars

NextLoad == LoadGoogleSheet

SpecLoad == InitLoad /\ [][NextLoad]_vars

-----------------------------------------------------------------------------
(* The chat (components/ai_insights_ui.py, render_ai_chat_interface)       *)

\* an append that keeps the three latest exchanges only (a mutation)
append_exchange_trimmed(history, exchange) ==
    IF Len(history) < 3 THEN Append(history, exchange)
    ELSE Append(Tail(history), exchange)

\* lines 256-259: st.session_state.chat_history.append({...})
append_exchange(history, exchange) == Append(history, exchange)

\* line 262: chat_history[-3:]
last_three(history) ==
    SubSeq(history, IF Len(history) > 3 THEN Len(history) - 2 ELSE 1, Len(history))

\* lines 222-268 for one run of the script: the question in the text input,
\* if any, is put to the collaborator with the digest as context. The digest
\* is prepared outside the try block, so its exception ends the run; a
\* client without a key (analyst.client is None) and a failing request end
\* in the except clause of line 267; an answer is appended to the history,
\* and the last three exchanges are displayed
chat_run(history, question, athlete, answers) ==
    IF isna(question)
    THEN [raised |-> FALSE, called |-> FALSE, answered |-> FALSE,
          history |-> history, value |-> <<>>]
    ELSE IF prepare_data_summary(df, athlete, 14).raised
    THEN [raised |-> TRUE, called |-> FALSE, answered |-> FALSE,
          history |-> history, value |-> <<>>]
    ELSE IF api = "unconfigured" \/ ~answers
    THEN [raised |-> FALSE, called |-> api # "unconfigured", answered |-> FALSE,
          history |-> history, value |-> <<>>]
    ELSE Once({[raised |-> FALSE, called |-> TRUE, answered |-> TRUE,
                history |-> h, value |-> last_three(h)] :
               h \in {append_exchange(history, [question |-> question,
                                                answer |-> "answer"])}})

-----------------------------------------------------------------------------
(* Specification of the chat: questions, empty submissions and Clear Chat  *)
(* presses on one session, with a client that has no key or whose requests *)
(* fail or are answered one by one                                         *)

MaxChat == 4

Questions == {Text(<<"1">>), Text(<<"2">>)}

InitChat ==
    /\ numpy = "1.x"
    /\ api \in {"unconfigured", "answers"}
    /\ raw = form_responses
    /\ df = normalize_dataframe(form_responses)
    /\ arg \in [metric : {""}, athlete : {None, Text(<<"A">>), Text(<<"B">>)}]
    /\ ret = NoReturn
    /\ pc = "start"
    /\ stdout = NoOutput
    /\ out = EmptyFrame(0)
    /\ out2 = EmptyFrame(0)
    /\ text = NULL
    /\ res = NULL
    /\ NoSession

\* the user submits the text input, with a question or empty, and the
\* script runs
Ask ==
    /\ pc # "cleared"
    /\ Len(chat_history) < MaxChat
    /\ \E question \in Questions \cup {NULL}, answers \in BOOLEAN :
         \E run \in {chat_run(chat_history, question, arg.athlete, answers)} :
            /\ text' = question
            /\ chat_history' = run.history
            /\ ret' = [raised |-> run.raised, called |-> run.called,
                       value |-> run.value, answered |-> run.answered]
    /\ pc' = "asked"
    /\ UNCHANGED <<raw, df, stdout, out, out2, res, numpy, arg, api, cache, now, calls, env>>

\* the user presses Clear Chat: the script runs with the text input as it
\* is, and lines 271-273 empty the history and ask for a rerun, unless the
\* run has ended before
ClearChat ==
    /\ pc # "cleared"
    /\ \E answers \in BOOLEAN :
         \E run \in {chat_run(chat_history, text, arg.athlete, answers)} :
            /\ chat_history' = IF run.raised THEN chat_history ELSE <<>>
            /\ pc' = IF run.raised THEN "asked" ELSE "cleared"
            /\ ret' = [raised |-> run.raised, called |-> run.called,
                       value |-> run.value, answered |-> run.answered]
    /\ UNCHANGED <<raw, df, stdout, out, out2, text, res, numpy, arg, api, cache, now,
                   calls, env>>

\* st.rerun() at line 273: the script runs again, with the text input as it
\* is and no button pressed
Rerun ==
    /\ pc = "cleared"
    /\ \E answers \in BOOLEAN :
         \E run \in {chat_run(chat_history, text, arg.athlete, answers)} :
            /\ chat_history' = run.history
            /\ ret' = [raised |-> run.raised, called |-> run.called,
                       value |-> run.value, answered |-> run.answered]
    /\ pc' = "reran"
    /\ UNCHANGED <<raw, df, stdout, out, out2, text, res, numpy, arg, api, cache, now,
                   calls, env>>

NextChat == Ask \/ ClearChat \/ Rerun

SpecChat == InitChat /\ [][NextChat]_vars

-----------------------------------------------------------------------------
(* Trends (SpecTrend)                                                      *)

UP == Text(<<"U", "P">>)

DOWN == Text(<<"D", "O", "W", "N">>)

FLAT == Text(<<"F", "L", "A", "T">>)

\* the table has the three columns compute_trend needs
Trendable(t) == \A l \in {"Athlete", "Date", arg.metric} : HasCol(t, Lbl(l))

\* the row of trends.py's output is classified as the claim says: against
\* the metric of the nearest row above it of the same athlete
ClassifiedAsClaimed(t, r) ==
    LET prev  == shifted(t, arg.metric, r)
        curr  == Col(t, Lbl(arg.metric))[r]
        trend == Col(t, Derived(arg.metric, "_Trend"))[r]
    IN  IF isna(prev) THEN isna(trend)
        ELSE IF isna(curr) THEN TRUE
        ELSE trend = (IF NumLess(prev, curr) THEN UP
                      ELSE IF NumLess(curr, prev) THEN DOWN ELSE FLAT)

\* C11: compute_trend returns a table in which every row's trend is null
\* when the athlete has no preceding row or the preceding value is null, and
\* otherwise UP, DOWN or FLAT as the value is above, below or equal to the
\* preceding one; readiness 5, 5, 7 on three days gives null, FLAT, UP
C11_TrendAgainstPrevious ==
    (pc = "trended" /\ Trendable(df)) =>
        /\ ~out.err
        /\ \A r \in 1..out.n : ClassifiedAsClaimed(out, r)
        /\ (\E a \in {<<"A">>, <<"B">>} :
                df = WellnessTable([r \in 1..3 |->
                        [athlete |-> a, day |-> r,
                         value |-> IF r = 3 THEN Whole(7) ELSE Whole(5)]],
                        TRUE, "Readiness"))
            => Col(out, Lbl("Readiness_Trend")) = <<NULL, FLAT, UP>>

\* the trend the table gives the row submitted at timestamp ts
TrendOf(t, ts) ==
    Col(t, Derived(arg.metric, "_Trend"))
        [CHOOSE r \in 1..t.n : Col(t, Lbl("Timestamp"))[r] = ts]

\* C12: the trend compute_trend gives a row does not depend on the order of
\* the rows of its input, also when an athlete has several rows on one date
\* (stated where compute_trend returns a table, on numpy 1.x)
C12_OrderIndependent ==
    (pc = "trended_reordered" /\ Trendable(raw) /\ numpy = "1.x") =>
        /\ ~out.err /\ ~out2.err
        /\ \A r \in 1..raw.n :
              TrendOf(out, Col(raw, Lbl("Timestamp"))[r])
                  = TrendOf(out2, Col(raw, Lbl("Timestamp"))[r])

-----------------------------------------------------------------------------
(* Z-scores (SpecZScore)                                                   *)

\* the cell is the number (x - mean) / sd of the cohort g for the population
\* standard deviation sd (divisor n): sign of n x - sum, square
\* (n x - sum) ^ 2 / ss
IsPopulationZ(z, x, g) ==
    LET dev == g.n * x.m - g.sum
    IN  /\ z.kind = "root"
        /\ (z.m < 0) = (dev < 0)
        /\ (IF z.m < 0 THEN 0 - z.m ELSE z.m) * g.ss = dev * dev * z.d

\* the cell is a number that rounds to sign * h / 100 (h > 0)
RoundsTo(z, sign, h) ==
    /\ z.kind = "root"
    /\ (IF sign < 0 THEN z.m < 0 ELSE z.m > 0)
    /\ (2 * h - 1) * (2 * h - 1) * z.d <= 40000 * (IF z.m < 0 THEN 0 - z.m ELSE z.m)
    /\ 40000 * (IF z.m < 0 THEN 0 - z.m ELSE z.m) < (2 * h + 1) * (2 * h + 1) * z.d

\* the rows of one date hold the metric values 2, 4, 6 in this order
CohortTwoFourSix(t) ==
    /\ t.n = 3 /\ HasCol(t, Lbl("Date")) /\ HasCol(t, Lbl("Readiness"))
    /\ \A r \in 1..3 : Col(t, Lbl("Date"))[r] = Col(t, Lbl("Date"))[1]
    /\ Col(t, Lbl("Readiness")) = <<Whole(2), Whole(4), Whole(6)>>

\* C13: the z-score of a row is (value - cohort mean) / population standard
\* deviation of the cohort (divisor N); a cohort 2, 4, 6 gives about
\* -1.22, 0, 1.22
C13_PopulationStd ==
    (pc = "zscored" /\ arg.metric = "Readiness" /\ HasCol(df, Lbl("Date"))) =>
        /\ \A r \in 1..df.n :
              LET x == Col(df, Lbl("Readiness"))[r]
                  g == group_stats(df, "Readiness", <<"Date">>, r)
              IN  (~isna(x) /\ g.found /\ g.ss > 0) =>
                      IsPopulationZ(Col(out, Lbl("Readiness_ZScore"))[r], x, g)
        /\ CohortTwoFourSix(df) =>
              /\ RoundsTo(Col(out, Lbl("Readiness_ZScore"))[1], 0 - 1, 122)
              /\ Col(out, Lbl("Readiness_ZScore"))[2].kind = "root"
              /\ Col(out, Lbl("Readiness_ZScore"))[2].m = 0
              /\ RoundsTo(Col(out, Lbl("Readiness_ZScore"))[3], 1, 122)

\* the non-null values of the metric on the date of row r
CohortValues(t, r) ==
    {Col(t, Lbl(arg.metric))[q] :
        q \in {q \in 1..t.n : /\ Col(t, Lbl("Date"))[q] = Col(t, Lbl("Date"))[r]
                               /\ ~isna(Col(t, Lbl(arg.metric))[q])}}

\* C14: calculate_zscore_by_date raises nothing and produces no infinity;
\* every z-score is null when the metric column or the grouping column is
\* absent, and the z-score of a row is null when its cohort has no spread
\* (all values equal, a single row included)
C14_NullWithoutSpread ==
    pc = "zscored" =>
        /\ ~out.err
        /\ HasCol(out, Derived(arg.metric, "_ZScore"))
        /\ \A r \in 1..out.n :
              LET z == Col(out, Derived(arg.metric, "_ZScore"))[r]
              IN  /\ isna(z) \/ (z.kind = "root" /\ z.d > 0)
                  /\ (~HasCol(df, Lbl(arg.metric)) \/ ~HasCol(df, Lbl("Date"))) => isna(z)
                  /\ (HasCol(df, Lbl(arg.metric)) /\ HasCol(df, Lbl("Date"))
                        /\ Cardinality(CohortValues(df, r)) <= 1) => isna(z)

\* two rows of one date with the same value, and no z-score for them; and a
\* cohort of one
C14_Witness ==
    /\ pc = "zscored" /\ arg.metric = "Readiness" /\ HasCol(df, Lbl("Date"))
    /\ \E r, q, u \in 1..df.n :
          /\ r # q
          /\ Col(df, Lbl("Date"))[r] = Col(df, Lbl("Date"))[q]
          /\ Col(df, Lbl("Date"))[u] # Col(df, Lbl("Date"))[r]
          /\ \A i \in {r, q, u} : ~isna(Col(df, Lbl("Readiness"))[i])
          /\ Col(df, Lbl("Readiness"))[r] = Col(df, Lbl("Readiness"))[q]
          /\ \A i \in {r, q, u} : isna(Col(out, Lbl("Readiness_ZScore"))[i])

-----------------------------------------------------------------------------
(* Derived tables (SpecTrend)                                              *)

\* t is s with one column labelled l appended: same rows in the same order,
\* same values in every column of s
AppendsOneColumn(t, s, l) ==
    /\ ~t.err
    /\ t.n = s.n
    /\ t.cols = Append(s.cols, l)
    /\ \A j \in ColIdx(s) : t.data[j] = s.data[j]

\* C15: compute_trend(df, m) returns the rows of df in the same order with
\* every column of df unchanged and the one derived column appended (stated
\* where compute_trend returns a table, on numpy 1.x)
C15_OnlyOneColumnAppended ==
    (pc = "trended" /\ numpy = "1.x") =>
        AppendsOneColumn(out, df, Derived(arg.metric, "_Trend"))

\* C16: compute_trend leaves the table passed to it as it was and returns a
\* table, and add_all_trends applied to its own output returns that output
C16_PureAndIdempotent ==
    /\ pc \in {"trended", "trends_added"} => (df = raw /\ ~out.err)
    /\ pc = "trends_added_twice" => (~out2.err /\ out2 = out)

-----------------------------------------------------------------------------
(* Risk assessment (SpecRisk)                                              *)

\* the rows of the athlete asked about
AthleteRows == {r \in 1..df.n : Col(df, Lbl("Athlete"))[r] = arg.athlete}

\* the assessment window: of the rows given, those of the seven latest dates
Window(rows) ==
    Once({{r \in rows : Cardinality({q \in rows : date[q].m > date[r].m}) < 7} :
          date \in {Col(df, Lbl("Date"))}})

\* the readiness on the earliest date of the window w (the latest date when
\* ~earliest)
ReadinessAtEnd(w, earliest) ==
    Once({Col(df, Lbl("Readiness"))
              [CHOOSE r \in w : \A q \in w :
                  IF earliest THEN date[r].m <= date[q].m ELSE date[r].m >= date[q].m] :
          date \in {Col(df, Lbl("Date"))}})

\* the non-null values of column l in the window w
WindowValues(w, l) ==
    IF HasCol(df, Lbl(l)) THEN values_of(TakeRows(df, Ascending(df.n, w)), Lbl(l))
    ELSE <<>>

\* the rules of the claim that fire on the window w: name of the factor and
\* points
FiredRules(w) ==
    {rule \in
        { [factor |-> "Low average readiness", points |-> 2,
           fires |-> \E r \in {WindowValues(w, "Readiness")} :
                        Len(r) > 0 /\ SumPow(r, 1) < 5 * Len(r)],
          [factor |-> "Declining readiness trend", points |-> 1,
           fires |-> \E a \in {ReadinessAtEnd(w, TRUE)}, z \in {ReadinessAtEnd(w, FALSE)} :
                        ~isna(a) /\ ~isna(z) /\ z.m < a.m - 1],
          [factor |-> "High stress levels", points |-> 2,
           fires |-> \E st \in {WindowValues(w, "Stress")} :
                        Len(st) > 0 /\ SumPow(st, 1) > 7 * Len(st)],
          [factor |-> "Inconsistent sleep patterns", points |-> 1,
           fires |-> \E sm \in {WindowValues(w, "SleepMinutes")} :
                        /\ Len(sm) > 1
                        /\ Len(sm) * SumPow(sm, 2) - SumPow(sm, 1) * SumPow(sm, 1)
                               > 8100 * Len(sm) * (Len(sm) - 1)],
          [factor |-> "High fatigue", points |-> 2,
           fires |-> \E f \in {WindowValues(w, "Fatigue")} :
                        Len(f) > 0 /\ SumPow(f, 1) > 7 * Len(f)] } : rule.fires}

RECURSIVE Points(_)
Points(rules) ==
    IF rules = {} THEN 0
    ELSE LET rule == CHOOSE x \in rules : TRUE
         IN  rule.points + Points(rules \ {rule})

\* C17: risk_score is the sum of the points of the rules that fire on the
\* window, factors holds exactly one entry per fired rule, risk_level is
\* high from 5, moderate from 3, low from 1 and minimal below; low mean
\* readiness together with high mean stress gives at least 4 points and the
\* level moderate or high
C17_ScoreIsSumOfFiredRules ==
    (pc = "assessed" /\ AthleteRows # {}) =>
        \A fired \in {Once({FiredRules(Window(rows)) : rows \in {AthleteRows}})} :
            /\ res.risk_score = Points(fired)
            /\ Len(res.factors) = Cardinality(fired)
            /\ {res.factors[i] : i \in 1..Len(res.factors)}
                   = {rule.factor : rule \in fired}
            /\ res.risk_level = (IF res.risk_score >= 5 THEN "high"
                                 ELSE IF res.risk_score >= 3 THEN "moderate"
                                 ELSE IF res.risk_score >= 1 THEN "low"
                                 ELSE "minimal")
            /\ ({"Low average readiness", "High stress levels"}
                    \subseteq {rule.factor : rule \in fired})
               => (res.risk_score >= 4 /\ res.risk_level \in {"moderate", "high"})

\* an athlete with more than seven days who is assessed as moderate, with
\* exactly the readiness rule and the stress rule fired
C17_Witness ==
    /\ pc = "assessed" /\ Cardinality(AthleteRows) > 7
    /\ res.risk_score = 4 /\ res.risk_level = "moderate"
    /\ res.factors = <<"Low average readiness", "High stress levels">>

\* C18: whatever the table and the athlete name, a name that matches no row
\* included, the result has the keys risk_level, risk_score, factors and
\* recommendation, and risk_level is minimal, low, moderate or high
C18_FourKeysAlways ==
    pc \in {"assessed", "rendered"} =>
        /\ ~ret.raised
        /\ DOMAIN res = {"risk_level", "risk_score", "factors", "recommendation"}
        /\ res.risk_level \in {"minimal", "low", "moderate", "high"}

-----------------------------------------------------------------------------
(* Row presence (SpecNormalize)                                            *)

\* C19: normalize_dataframe keeps every input row that has a non-empty raw
\* cell, with the cells it cannot parse turned into null; only rows empty
\* in every raw column are removed (stated where the call returns a table)
C19_RowsPreserved ==
    (pc = "normalized" /\ ~out.err
        /\ \E j \in ColIdx(raw) : ~isna(raw.data[j][1])) => out.n = raw.n

-----------------------------------------------------------------------------
(* Failing collaborator (SpecInsights)                                     *)

\* the error text of the method that was called
ErrorPrefix ==
    CASE pc = "athlete_insights" -> "Error generating insights: "
      [] pc = "team_insights"    -> "Error generating team insights: "
      [] pc = "comparison"       -> "Error generating comparison: "

\* C20: when the call to the collaborator fails, generate_athlete_insights,
\* generate_team_insights and generate_comparative_analysis return an error
\* text and raise nothing, and the table they were given is unchanged
C20_FailureBecomesErrorText ==
    (pc \in {"athlete_insights", "team_insights", "comparison"}
        /\ api = "fails" /\ ret.called) =>
        /\ ~ret.raised
        /\ Len(ret.value) = 2 /\ ret.value[1] = ErrorPrefix
        /\ df = raw

\* the team's insights were asked for a table with rows of two athletes, the
\* collaborator was called and failed
C20_Witness ==
    /\ pc = "team_insights" /\ api = "fails" /\ ret.called
    /\ df.n = 2 /\ Col(df, Lbl("Athlete"))[1] # Col(df, Lbl("Athlete"))[2]
    /\ ret.value[1] = "Error generating team insights: "

-----------------------------------------------------------------------------
(* Loading (SpecLoad)                                                      *)

\* how often a request occurs among the requests of one call
Count(requests, x) == Cardinality({i \in 1..Len(requests) : requests[i] = x})

\* the attempt on the spreadsheet source of this behaviour fails
SourceFails == env.source # "ok" \/ raw.n = 0 \/ raw.cols = <<>>

\* C21: within one call of load_google_sheet the source is attempted at most
\* once; the snapshot is read at most once, as the last request, and only
\* when the attempt on the source has failed, use_fallback is true and the
\* snapshot is present; in every other failure the original error is raised
\* and no table is returned
C21_OneAttemptThenFallback ==
    \A i \in 1..Len(calls) :
        calls[i].op = "load_google_sheet" =>
            /\ Count(calls[i].requests, "source") <= 1
            /\ Count(calls[i].requests, "snapshot") <= 1
            /\ Count(calls[i].requests, "snapshot") = 1 =>
                  /\ SourceFails /\ calls[i].key[1] /\ env.snapshot # "absent"
                  /\ calls[i].requests[Len(calls[i].requests)] = "snapshot"
            /\ SourceFails /\ ~(calls[i].key[1] /\ env.snapshot # "absent") =>
                  /\ calls[i].raised /\ calls[i].error = "original"
                  /\ i = Len(calls) => ret.raised /\ df = EmptyFrame(0)

\* one call has fallen back to the snapshot after the source failed, another,
\* without use_fallback, has raised the original error
C21_Witness ==
    \E i, j \in 1..Len(calls) :
        /\ calls[i].requests = <<"source", "snapshot">> /\ ~calls[i].raised
        /\ ~calls[j].key[1] /\ calls[j].raised /\ calls[j].error = "original"

-----------------------------------------------------------------------------
(* The insights cache (SpecSession)                                        *)

IsInsightsCall(i) == calls[i].op = "get_cached_insights"

\* no refresh_data among the calls i..j
NoRefresh(i, j) == \A k \in i..j : calls[k].op # "refresh_data"

\* call j comes less than an hour after call i
WithinTheHour(i, j) == calls[j].at - calls[i].at < 12

\* the body of call i reaches the collaborator: the client is configured,
\* the insight type is known and the digests are prepared without a raise
ReachesCollaborator(i) ==
    /\ api # "unconfigured"
    /\ \/ calls[i].key[3] \in {"individual", "team"}
       \/ calls[i].key[3] = "comparison" /\ given(calls[i].key[4], "athlete2") # {}
    /\ ~calls[i].raised

\* C22 as stated: of two calls with the same table, athlete and insight type
\* less than an hour apart with no refresh in between, the first of which
\* found nothing stored, the first invokes the collaborator once and the
\* second none and returns the first's text; a call that finds no text
\* stored within the last hour invokes the collaborator
C22_OnceWithinTheHour ==
    /\ \A i, j \in 1..Len(calls) :
          /\ i < j /\ IsInsightsCall(i) /\ IsInsightsCall(j)
          /\ \A k \in 1..3 : calls[i].key[k] = calls[j].key[k]
          /\ ~calls[i].hit /\ NoRefresh(i, j) /\ WithinTheHour(i, j)
          => /\ calls[i].requests = <<"narrative">>
             /\ calls[j].requests = <<>>
             /\ calls[j].value = calls[i].value
    /\ \A j \in 1..Len(calls) :
          IsInsightsCall(j) /\ ~calls[j].hit => calls[j].requests = <<"narrative">>

\* C22, amended: of two calls with the same table, athlete, insight type and
\* keyword arguments less than an hour apart with no refresh in between, the
\* first of which ran the body and returned, the second is served from the
\* cache: it makes no request and returns the first's text. A call is served
\* from the cache only so; every other call runs the body, which invokes the
\* collaborator once if it reaches it and not at all otherwise
C22_StoredForAnHour ==
    /\ \A i, j \in 1..Len(calls) :
          /\ i < j /\ IsInsightsCall(i) /\ IsInsightsCall(j)
          /\ calls[i].key = calls[j].key
          /\ ~calls[i].hit /\ ~calls[i].raised /\ NoRefresh(i, j) /\ WithinTheHour(i, j)
          => /\ calls[j].hit
             /\ calls[j].requests = <<>>
             /\ calls[j].value = calls[i].value
    /\ \A j \in 1..Len(calls) :
          IsInsightsCall(j) =>
             IF calls[j].hit
             THEN \E i \in 1..(j - 1) :
                     /\ IsInsightsCall(i) /\ calls[i].key = calls[j].key
                     /\ ~calls[i].hit /\ ~calls[i].raised
                     /\ NoRefresh(i, j) /\ WithinTheHour(i, j)
             ELSE calls[j].requests
                     = IF ReachesCollaborator(j) THEN <<"narrative">> ELSE <<>>

\* the collaborator has answered a call, and a later call at a later moment
\* of the same hour has returned the stored text
C22_Witness ==
    \E i, j \in 1..Len(calls) :
        /\ i < j /\ IsInsightsCall(i) /\ IsInsightsCall(j)
        /\ calls[i].key = calls[j].key
        /\ calls[i].requests = <<"narrative">> /\ calls[j].hit
        /\ calls[j].at > calls[i].at /\ calls[j].value = calls[i].value

\* the period of the digest a call asks for: its days argument, 14 without
Period(args) ==
    IF given(args[4], "days") # {} THEN args[4][FirstMatch(given(args[4], "days"))][2]
    ELSE Whole(14)

\* the step is a call of get_cached_insights
InsightsStep ==
    /\ Len(calls') = Len(calls) + 1
    /\ calls'[Len(calls')].op = "get_cached_insights"

\* C23 as stated: a call is served by the entry, stored within the last hour,
\* of a call that agrees with it on athlete, insight type and period, and by
\* no other
C23_KeyedByFilter ==
    [][InsightsStep =>
          (calls'[Len(calls')].hit <=>
              \E e \in cache["get_cached_insights"] :
                 /\ e.key[2] = calls'[Len(calls')].key[2]
                 /\ e.key[3] = calls'[Len(calls')].key[3]
                 /\ Period(e.key) = Period(calls'[Len(calls')].key)
                 /\ now - e.at < 12)]_vars

\* C23, amended: the entry is selected by all arguments of the call, i.e. the
\* table, the athlete, the insight type and the keyword arguments. A call is
\* served from the cache exactly if an entry with equal arguments was stored
\* within the last hour, and then returns that entry's text; otherwise what
\* the body returns is stored under the call's arguments, and the entries of
\* other arguments are never replaced
C23_KeyedByAllArguments ==
    [][InsightsStep =>
          /\ calls'[Len(calls')].hit <=>
                \E e \in cache["get_cached_insights"] :
                    e.key = calls'[Len(calls')].key /\ now - e.at < 12
          /\ calls'[Len(calls')].hit =>
                \A e \in cache["get_cached_insights"] :
                    e.key = calls'[Len(calls')].key => e.value = ret'.value
          /\ ~calls'[Len(calls')].hit /\ ~ret'.raised =>
                [key |-> calls'[Len(calls')].key, value |-> ret'.value, at |-> now]
                    \in cache'["get_cached_insights"]
          /\ \A e \in cache["get_cached_insights"] :
                e.key # calls'[Len(calls')].key /\ now - e.at < 12
                    => e \in cache'["get_cached_insights"]]_vars

\* two entries for the same table, athlete and insight type, with and without
\* a period of seven days
C23_Witness ==
    \E e1, e2 \in cache["get_cached_insights"] :
        /\ \A k \in 1..3 : e1.key[k] = e2.key[k]
        /\ Period(e1.key) = Whole(7) /\ Period(e2.key) = Whole(14)

\* call j is the first call of its function after the refresh_data of call i
NextAfterRefresh(i, j) ==
    /\ i < j /\ calls[i].op = "refresh_data"
    /\ calls[j].op \in {"load_google_sheet", "get_cached_insights"}
    /\ \A k \in (i + 1)..(j - 1) : calls[k].op # calls[j].op

IsErrorText(value) ==
    \/ value = not_configured.value
    \/ value = <<"Invalid insight type requested.">>
    \/ Len(value) = 2 /\ value[2] = "str(e)"

\* C29: an error or warning text produced by the body of get_cached_insights
\* is stored like an insight: the call leaves an entry with that text, and a
\* call with the same arguments less than an hour later with no refresh in
\* between returns the same text and makes no request
C29_ErrorTextsAreStored ==
    /\ pc = "insights" /\ ~ret.raised /\ IsErrorText(ret.value) =>
          \E e \in cache["get_cached_insights"] :
              e.key = calls[Len(calls)].key /\ e.value = ret.value
    /\ \A i, j \in 1..Len(calls) :
          /\ i < j /\ IsInsightsCall(i) /\ IsInsightsCall(j)
          /\ calls[i].key = calls[j].key
          /\ ~calls[i].hit /\ ~calls[i].raised /\ IsErrorText(calls[i].value)
          /\ NoRefresh(i, j) /\ WithinTheHour(i, j)
          => calls[j].requests = <<>> /\ calls[j].value = calls[i].value

\* a request has failed, and a later call at a later moment of the same hour
\* has returned the same error text without a request
C29_Witness ==
    \E i, j \in 1..Len(calls) :
        /\ i < j /\ IsInsightsCall(i) /\ IsInsightsCall(j)
        /\ calls[i].key = calls[j].key /\ NoRefresh(i, j)
        /\ calls[i].requests = <<"narrative">> /\ IsErrorText(calls[i].value)
        /\ calls[j].at > calls[i].at /\ calls[j].hit
        /\ calls[j].value = calls[i].value

-----------------------------------------------------------------------------
(* The digest (SpecInsights)                                               *)

\* the rows of the table are in date-then-athlete order, as
\* normalize_dataframe leaves them, or in athlete-then-date order, as
\* compute_trend leaves them
InLoadedOrTrendOrder(t) ==
    /\ HasCol(t, Lbl("Date")) /\ HasCol(t, Lbl("Athlete"))
    /\ \/ t = sort_values(t, <<Lbl("Date"), Lbl("Athlete")>>)
       \/ t = sort_values(t, <<Lbl("Athlete"), Lbl("Date")>>)

\* the rows of the window that carry its latest date
LatestRows(t, athlete) ==
    {r \in window_rows(t, athlete, 14) :
        \A q \in window_rows(t, athlete, 14) :
            within(Col(t, Lbl("Date"))[r], Col(t, Lbl("Date"))[q], 0)}

\* C25: for a table in date-then-athlete or athlete-then-date order, with or
\* without an athlete filter, current_status and trends of the digest are
\* those of a row of the window that carries the window's latest date
C25_StatusFromLatestDate ==
    pc = "summary" /\ ~ret.raised /\ InLoadedOrTrendOrder(df)
        => \E r \in LatestRows(df, arg.athlete) :
              /\ res.current_status = current_status(df, r)
              /\ res.trends = trends(df, r)

\* C26: prepare_data_summary, generate_team_insights and
\* generate_comparative_analysis raise for no table and no athlete filter
C26_DigestNeverRaises ==
    pc \in {"summary", "team_insights", "comparison"} => ~ret.raised

-----------------------------------------------------------------------------
(* Trends, continued (SpecTrend)                                           *)

\* C27: compute_trend keeps every input row, and a row's trend is non-null
\* exactly if the row has an athlete and both its own metric and the metric
\* of the athlete's immediately preceding row in date order are non-null
C27_TrendIffBothPresent ==
    (pc = "trended" /\ Trendable(df)) =>
        /\ ~out.err
        /\ out.n = df.n
        /\ \A r \in 1..out.n :
              ~isna(Col(out, Derived(arg.metric, "_Trend"))[r])
                 <=> /\ ~isna(Col(out, Lbl("Athlete"))[r])
                     /\ ~isna(Col(out, Lbl(arg.metric))[r])
                     /\ ~isna(shifted(out, arg.metric, r))

-----------------------------------------------------------------------------
(* Readiness, continued (SpecReadiness)                                    *)

-----------------------------------------------------------------------------
(* The chat log (SpecChat)                                                 *)

\* C30: every change of chat_history is the append of one exchange, that of
\* the question in the text input, after an answer of the collaborator, or
\* the reset to empty by Clear Chat; a run without an answer and without
\* Clear Chat leaves the log as it is; and a run with an answer displays the
\* at most three latest exchanges of the log as appended to, oldest first
C30_AppendOrReset ==
    [][/\ chat_history' # chat_history =>
             \/ pc' = "cleared" /\ chat_history' = <<>>
             \/ /\ ret'.answered
                /\ Len(chat_history') = Len(chat_history) + 1
                /\ SubSeq(chat_history', 1, Len(chat_history)) = chat_history
                /\ chat_history'[Len(chat_history')].question = text'
       /\ ~ret'.answered /\ pc' # "cleared" => chat_history' = chat_history
       /\ Len(ret'.value) <= 3
       /\ ret'.answered /\ pc' # "cleared" =>
             /\ Len(ret'.value) = (IF Len(chat_history') < 3 THEN Len(chat_history') ELSE 3)
             /\ \A k \in 1..Len(ret'.value) :
                   ret'.value[k]
                      = chat_history'[Len(chat_history') - Len(ret'.value) + k]]_vars

\* the log holds four exchanges, of which the last three are displayed
C30_Witness ==
    /\ pc = "asked" /\ ret.answered
    /\ Len(chat_history) = 4
    /\ ret.value = <<chat_history[2], chat_history[3], chat_history[4]>>

=============================================================================
